---- MODULE Spec2Model ----
(***************************************************************************)
(* The client API core of the player (player/client.c): per-client event   *)
(* rings with reply reservation, asynchronous requests that travel over    *)
(* the dispatch queue to the playback thread, event fan-out filtered by    *)
(* the per-client event mask, and the mpv_wait_event loop.                 *)
(*                                                                         *)
(* Every region the code runs under one handle lock is one atomic step.    *)
(* abort() and a failed assert() end the process: they are recorded in     *)
(* `fatal`, and no step is taken afterwards.                               *)
(***************************************************************************)
EXTENDS Integers, Sequences, FiniteSets, TLC

\* ---------------------------------------------------------------- bounds

\* Entries of a client's event ring (max_events).  mp_new_client uses 1000;
\* the model scales it down.
num_events == 2
\* Cap on the reply IDs one client allocates in a run (alloc_reply_id is a
\* 64 bit counter in the code).
MaxReplyId == 3
\* Cap on the event payloads the playback thread allocates in a run.
MaxPayloads == 1
\* The largest number mp_new_client appends to a name that is taken (the
\* code tries 2 .. 999).
MaxSuffix == 3
\* Cap on the calls the threads make in a run of LockSpec.
MaxCalls == 4
\* Cap on the mpv_suspend calls of a run.
MaxSuspend == 2
\* Cap on the unread entries of a client's log buffer.
MaxMessages == 1

\* ------------------------------------------------------ program constants

MPV_ERROR_SUCCESS == 0
MPV_ERROR_EVENT_BUFFER_FULL == -1
MPV_ERROR_INVALID_PARAMETER == -2
MPV_ERROR_NOMEM == -3
MPV_ERROR_NOT_FOUND == -4
MPV_ERROR_PROPERTY == -5
MPV_ERROR_PROPERTY_UNAVAILABLE == -6
MPV_ERROR_UNINITIALIZED == -7

MPV_FORMAT_NONE == 0
MPV_FORMAT_STRING == 1
MPV_FORMAT_OSD_STRING == 2

MPV_EVENT_NONE == 0
MPV_EVENT_OK == 1
MPV_EVENT_ERROR == 2
MPV_EVENT_SHUTDOWN == 3
MPV_EVENT_LOG_MESSAGE == 4
MPV_EVENT_TICK == 5
MPV_EVENT_PROPERTY == 6
MPV_EVENT_PAUSE == 13
MPV_EVENT_UNPAUSE == 14
MPV_EVENT_SCRIPT_INPUT_DISPATCH == 15

\* The event IDs event_table names: 0 .. MP_ARRAY_SIZE(event_table) - 1.
EventIds == MPV_EVENT_NONE .. MPV_EVENT_SCRIPT_INPUT_DISPATCH

\* The handles a run can have, and the threads that submit requests.
Handles == {1, 2, 3}
Threads == {1, 2}
\* reply_ctx of a synchronous request (a NULL pointer).
NULL == 0

VARIABLES
    clients,    \* the registry's table (struct mp_client_api): its handles
    handle,     \* handle[c]: the fields of struct mpv_handle
    waiter,     \* waiter[c]: the locals of the mpv_wait_event call in progress
    thr,        \* thr[t]: where submitter thread t is inside run_async
    ret,        \* ret[t]: the handle of thread t's last request call, and
                \* what the call returned
    dispatch,   \* the dispatch queue of the playback thread
    fatal,      \* "none", or the abort() or assert() that ended the process
    issued,     \* issued[c]: the reply IDs reserve_reply returned, in order
    nsent,      \* nsent[c][r]: the send_reply calls made with reply_id r
    mpctx,      \* the engine (struct MPContext): initialized, and the
                \* suspend count of its dispatch queue
    heap,       \* heap[p]: the talloc_free calls made on event payload p
    lk          \* the registry lock, the handle locks and the threads that
                \* take them one at a time (LockSpec only)

vars ==
    <<clients, handle, waiter, thr, ret, dispatch, fatal, issued, nsent,
      mpctx, heap, lk>>

\* ------------------------------------------------------------ event record

\* struct mpv_event_data, zero-initialised but for the fields the code sets.
\* data is the payload pointer: 0 (NULL) or one of Payloads.
\* reply_id is not a field of the struct: it records the reply_id argument
\* that send_reply was called with when it wrote the record (0: the record
\* was written by send_event).
mpv_event_data(event_id, error) ==
    [in_reply_to |-> 0, event_id |-> event_id, error |-> error, data |-> 0,
     reply_id |-> 0]

\* ------------------------------------------------------------------- ring

\* The byte ring, counted in whole records: every read and write of the
\* code moves sizeof(struct mpv_event_data) bytes.
mp_ring_available(ring) == num_events - Len(ring)

mp_ring_buffered(ring) == Len(ring)

\* The ring after a write of one record, and the records written (the code
\* compares the bytes written with sizeof(*event)).
mp_ring_write(ring, event) ==
    IF mp_ring_available(ring) >= 1
    THEN [ring |-> Append(ring, event), r |-> 1]
    ELSE [ring |-> ring, r |-> 0]

\* ------------------------------------------------------------ handle steps

\* if (ctx->wakeup_cb) ctx->wakeup_cb(ctx->wakeup_cb_ctx): ncallbacks counts
\* the invocations of the callback.
wakeup_cb_call(ctx) ==
    IF ctx.wakeup_cb THEN [ctx EXCEPT !.ncallbacks = @ + 1] ELSE ctx

\* wakeup_client without the pthread_cond_signal.
wakeup_client_no_signal(ctx) == wakeup_cb_call(ctx)

\* pthread_cond_signal(&ctx->wakeup), which wakes the thread blocked in
\* pthread_cond_timedwait, if there is one; then the wakeup callback.
wakeup_client(ctx) ==
    wakeup_cb_call(IF ctx.wakeup = "waiting"
                   THEN [ctx EXCEPT !.wakeup = "signaled"] ELSE ctx)

\* reserve_reply with res = ctx->alloc_reply_id++ (the ID before the
\* increment).
reserve_reply_post_increment(ctx) ==
    IF ctx.reserved_events < ctx.max_events
    THEN [ctx |-> [ctx EXCEPT !.reserved_events = @ + 1,
                              !.alloc_reply_id = @ + 1],
          res |-> ctx.alloc_reply_id]
    ELSE [ctx |-> ctx, res |-> MPV_ERROR_EVENT_BUFFER_FULL]

\* reserve_reply with reserved_events <= max_events as its test.
reserve_reply_one_more(ctx) ==
    IF ctx.reserved_events <= ctx.max_events
    THEN [ctx |-> [ctx EXCEPT !.reserved_events = @ + 1,
                              !.alloc_reply_id = @ + 1],
          res |-> ctx.alloc_reply_id + 1]
    ELSE [ctx |-> ctx, res |-> MPV_ERROR_EVENT_BUFFER_FULL]

reserve_reply(ctx) ==
    IF ctx.reserved_events < ctx.max_events
    THEN [ctx |-> [ctx EXCEPT !.reserved_events = @ + 1,
                              !.alloc_reply_id = @ + 1],
          res |-> ctx.alloc_reply_id + 1]
    ELSE [ctx |-> ctx, res |-> MPV_ERROR_EVENT_BUFFER_FULL]

\* The result of a step on a handle: the handle after it, how the process
\* ended in it, the value returned, the reply IDs send_reply was called with.
Result(ctx, ftl, r, replies) ==
    [ctx |-> ctx, fatal |-> ftl, r |-> r, replies |-> replies]

\* The end of send_event with the message logged on every drop.
choke_always(ctx) ==
    [ctx EXCEPT !.choke_warning = TRUE, !.nwarnings = @ + 1]

\* The end of send_event when nothing was written: "Too many events
\* queued." is logged unless choke_warning is set, and choke_warning is set.
choke(ctx) ==
    IF ~ctx.choke_warning
    THEN [ctx EXCEPT !.choke_warning = TRUE, !.nwarnings = @ + 1]
    ELSE ctx

\* send_event without the test of the event mask.
send_event_unmasked(ctx, event) ==
    LET n == mp_ring_available(ctx.events)
        w == mp_ring_write(ctx.events, event)
    IN IF n > ctx.reserved_events
       THEN IF w.r # 1
            THEN Result(ctx, "abort in send_event", -1, <<>>)
            ELSE Result(wakeup_client([ctx EXCEPT !.events = w.ring]),
                        "none", 0, <<>>)
       ELSE Result(choke(ctx), "none", -1, <<>>)

\* send_event with a free slot as its test, reserved or not.
send_event_any_slot(ctx, event) ==
    IF event.event_id \notin ctx.event_mask
    THEN Result(ctx, "none", 0, <<>>)
    ELSE LET n == mp_ring_available(ctx.events)
             w == mp_ring_write(ctx.events, event)
         IN IF n > 0
            THEN IF w.r # 1
                 THEN Result(ctx, "abort in send_event", -1, <<>>)
                 ELSE Result(wakeup_client([ctx EXCEPT !.events = w.ring]),
                             "none", 0, <<>>)
            ELSE Result(choke(ctx), "none", -1, <<>>)

send_event(ctx, event) ==
    IF event.event_id \notin ctx.event_mask
    THEN Result(ctx, "none", 0, <<>>)
    ELSE LET n == mp_ring_available(ctx.events)
             w == mp_ring_write(ctx.events, event)
         IN IF n > ctx.reserved_events
            THEN IF w.r # 1
                 THEN Result(ctx, "abort in send_event", -1, <<>>)
                 ELSE Result(wakeup_client([ctx EXCEPT !.events = w.ring]),
                             "none", 0, <<>>)
            ELSE Result(choke(ctx), "none", -1, <<>>)

\* send_reply without ctx->reserved_events--.
send_reply_keeps_reservation(ctx, reply_id, event) ==
    IF ~(ctx.reserved_events > 0)
    THEN Result(ctx, "assert in send_reply", 0, <<reply_id>>)
    ELSE LET w == mp_ring_write(ctx.events,
                                [event EXCEPT !.reply_id = reply_id])
         IN IF w.r # 1
            THEN Result(ctx, "abort in send_reply", 0, <<reply_id>>)
            ELSE Result(wakeup_client([ctx EXCEPT !.events = w.ring]),
                        "none", 0, <<reply_id>>)

send_reply(ctx, reply_id, event) ==
    IF ~(ctx.reserved_events > 0)
    THEN Result(ctx, "assert in send_reply", 0, <<reply_id>>)
    ELSE LET c1 == [ctx EXCEPT !.reserved_events = @ - 1]
             w == mp_ring_write(c1.events,
                                [event EXCEPT !.reply_id = reply_id])
         IN IF w.r # 1
            THEN Result(c1, "abort in send_reply", 0, <<reply_id>>)
            ELSE Result(wakeup_client([c1 EXCEPT !.events = w.ring]),
                        "none", 0, <<reply_id>>)

send_error_reply(ctx, reply_id, err) ==
    send_reply(ctx, reply_id, mpv_event_data(MPV_EVENT_ERROR, err))

\* mp_client_status_reply without the test of the status.
mp_client_status_reply_error(ctx, reply_id, status) ==
    send_error_reply(ctx, reply_id, status)

mp_client_status_reply(ctx, reply_id, status) ==
    IF status < 0
    THEN send_error_reply(ctx, reply_id, status)
    ELSE send_reply(ctx, reply_id, mpv_event_data(MPV_EVENT_OK, 0))

\* ------------------------------------------------------- request callbacks

\* What mp_property_do can return (options/m_property.h).
PropertyResults ==
    {"M_PROPERTY_OK", "M_PROPERTY_ERROR", "M_PROPERTY_UNAVAILABLE",
     "M_PROPERTY_NOT_IMPLEMENTED", "M_PROPERTY_UNKNOWN"}

translate_property_error(errc) ==
    CASE errc = "M_PROPERTY_OK" -> 0
      [] errc = "M_PROPERTY_ERROR" -> MPV_ERROR_PROPERTY
      [] errc = "M_PROPERTY_UNAVAILABLE" -> MPV_ERROR_PROPERTY_UNAVAILABLE
      [] errc = "M_PROPERTY_NOT_IMPLEMENTED" -> MPV_ERROR_PROPERTY
      [] errc = "M_PROPERTY_UNKNOWN" -> MPV_ERROR_NOT_FOUND
      [] OTHER -> MPV_ERROR_PROPERTY

\* The M_PROPERTY_* verb of a format, or a negative error code.
property_format_to_cmd(format) ==
    CASE format = MPV_FORMAT_STRING -> 1
      [] format = MPV_FORMAT_OSD_STRING -> 2
      [] OTHER -> MPV_ERROR_INVALID_PARAMETER

\* struct cmd_request / setproperty_request / getproperty_request, and the
\* thread blocked in mp_dispatch_run on it (0: enqueued by run_async).
\* thread is not a field of the structs: it records the thread that made
\* the run_async call (0: none).
Request(fn, reply_ctx, reply_id, format, caller) ==
    [fn |-> fn, reply_ctx |-> reply_ctx, reply_id |-> reply_id,
     format |-> format, caller |-> caller, thread |-> 0]

\* A callback's outcome: req->status, and the reply it sent (on the handle
\* reply_ctx, given as ctx), if it sent one.
Outcome(status, out) == [status |-> status, out |-> out]

\* cmd_fn without the reply.
cmd_fn_no_reply(ctx, req) ==
    Outcome(0, Result(ctx, "none", 0, <<>>))

cmd_fn(ctx, req) ==
    LET status == 0
    IN Outcome(status,
               IF req.reply_ctx # NULL
               THEN mp_client_status_reply(ctx, req.reply_id, status)
               ELSE Result(ctx, "none", 0, <<>>))

\* err: what mp_property_do returned.
setproperty_fn(ctx, req, err) ==
    LET status == translate_property_error(err)
    IN Outcome(status,
               IF req.reply_ctx # NULL
               THEN mp_client_status_reply(ctx, req.reply_id, status)
               ELSE Result(ctx, "none", 0, <<>>))

getproperty_fn(ctx, req, err) ==
    LET cmd == property_format_to_cmd(req.format)
        status == IF cmd < 0 THEN cmd ELSE translate_property_error(err)
    IN Outcome(status,
               IF req.reply_ctx # NULL
               THEN IF status < 0
                    THEN send_error_reply(ctx, req.reply_id, status)
                    ELSE send_reply(ctx, req.reply_id,
                                    mpv_event_data(MPV_EVENT_PROPERTY, 0))
               ELSE Result(ctx, "none", 0, <<>>))

\* ------------------------------------------------------------------- Init

\* Client names are strings, written as sequences of characters.
Main == <<"m", "a", "i", "n">>

\* No name: unique_name is still NULL.
NoName == <<>>

DigitChars == <<"0", "1", "2", "3", "4", "5", "6", "7", "8", "9">>

\* The "%d" of talloc_asprintf: the decimal digits of n >= 0.
RECURSIVE Decimal(_)
Decimal(n) ==
    IF n < 10 THEN <<DigitChars[n + 1]>>
    ELSE Decimal(n \div 10) \o <<DigitChars[(n % 10) + 1]>>

\* talloc_asprintf(NULL, "%s%d", name, n).
talloc_asprintf(name, n) == name \o Decimal(n)

\* find_client, as a test: a client of the table has this name (taken:
\* the names of the table's clients).
find_client(taken, name) == name \in taken

\* The name search of mp_new_client without the loop over suffixes: the
\* name asked for is used as it is.
unique_name_unchecked(taken, name) == name

\* The name search of mp_new_client with the loop running from the largest
\* suffix down.
unique_name_from_top(taken, name) ==
    IF ~find_client(taken, name) THEN name
    ELSE LET free == {n \in 2 .. MaxSuffix :
                         ~find_client(taken, talloc_asprintf(name, n))}
         IN IF free = {} THEN NoName
            ELSE talloc_asprintf(name,
                     CHOOSE n \in free : \A m \in free : m <= n)

\* The name search of mp_new_client: name itself when no client has it,
\* else name with the first n of 2, 3, ... that gives a free name, else
\* none (mp_new_client returns NULL).
unique_name(taken, name) ==
    IF ~find_client(taken, name) THEN name
    ELSE LET free == {n \in 2 .. MaxSuffix :
                         ~find_client(taken, talloc_asprintf(name, n))}
         IN IF free = {} THEN NoName
            ELSE talloc_asprintf(name,
                     CHOOSE n \in free : \A m \in free : n <= m)

\* The names of the clients k calls of mp_new_client(clients, "main") have
\* created, in the order of the table.
RECURSIVE CreatedNames(_)
CreatedNames(k) ==
    IF k = 0 THEN <<>>
    ELSE LET prev == CreatedNames(k - 1)
         IN Append(prev,
                   unique_name({prev[i] : i \in DOMAIN prev}, Main))

\* A handle as mp_new_client would leave it with every bit of event_mask
\* set.
mp_new_client_all_events ==
    [name |-> NoName,
     alloc_reply_id |-> 0,
     event_mask |-> 0 .. 63,
     queued_wakeup |-> FALSE,
     shutdown |-> FALSE,
     choke_warning |-> FALSE,
     nwarnings |-> 0,
     wakeup_cb |-> FALSE,
     ncallbacks |-> 0,
     events |-> <<>>,
     max_events |-> num_events,
     reserved_events |-> 0,
     messages |-> 0,
     messages_buf |-> NULL,
     messages_level |-> 0,
     nbuffers |-> 0,
     cur_event |-> mpv_event_data(MPV_EVENT_NONE, 0),
     wakeup |-> "idle"]

\* A handle as mp_new_client leaves it.  wakeup is the condition variable:
\* "idle" (no thread waits on it), "waiting" (the thread in mpv_wait_event is
\* blocked in pthread_cond_timedwait), "signaled" (it was signalled and has
\* not run yet).  messages counts the unread entries of the log buffer.
\* nwarnings is not a field of the struct: it counts the "Too many events
\* queued." messages send_event has logged for the handle.  wakeup_cb is
\* TRUE when a wakeup callback is set; ncallbacks is not a field either: it
\* counts the calls of the callback.  messages_buf is the pointer
\* ctx->messages: 0 is NULL, and the k-th log buffer made for the handle is
\* k (nbuffers counts them; it is not a field of the struct).
mp_new_client ==
    [name |-> NoName,
     alloc_reply_id |-> 0,
     event_mask |-> (0 .. 63) \ {MPV_EVENT_TICK},
     queued_wakeup |-> FALSE,
     shutdown |-> FALSE,
     choke_warning |-> FALSE,
     nwarnings |-> 0,
     wakeup_cb |-> FALSE,
     ncallbacks |-> 0,
     events |-> <<>>,
     max_events |-> num_events,
     reserved_events |-> 0,
     messages |-> 0,
     messages_buf |-> NULL,
     messages_level |-> 0,
     nbuffers |-> 0,
     cur_event |-> mpv_event_data(MPV_EVENT_NONE, 0),
     wakeup |-> "idle"]

NoRequest == Request("none", NULL, 0, 0, 0)

Returned(c, r) == [ctx |-> c, r |-> r]

\* No mpv_wait_event call is in progress.  woken is not a local of the
\* call: it records that mpv_wakeup has been called since mpv_wait_event
\* last returned.
NoWaiter ==
    [timeout |-> 0, expired |-> FALSE, timedout |-> FALSE, woken |-> FALSE]

\* The engine after mp_create (and mpv_initialize, if initialized):
\* mpctx->initialized, whether the playback thread runs, and the
\* number of suspend requests its dispatch queue holds. suspends and resumes
\* count the mpv_suspend and mpv_resume calls made so far, and frame is the
\* parity of the frames the playback thread has shown.
Engine(initialized) ==
    [initialized |-> initialized, playback |-> initialized,
     suspend_count |-> 0, suspends |-> 0, resumes |-> 0, frame |-> 0]

\* The event payloads the playback thread can allocate (pointers other than
\* NULL), and a payload that has not been allocated: live is set while the
\* memory is allocated, nfree counts the talloc_free calls made on it.
Payloads == 1 .. MaxPayloads

NoPayload == [live |-> FALSE, nfree |-> 0]

\* A thread that is in none of the locked regions.
LockIdle ==
    [op |-> "idle", at |-> "idle", n |-> 0, ctx |-> 0, event |-> 0,
     arg |-> 0]

\* No lock is held and no thread is inside a locked region.  registry and
\* lock[c] are the owners of clients->lock and of ctx->lock (0: free);
\* order lists the events of the broadcasts in the order in which they took
\* the registry lock, calls counts the calls the threads have made and
\* nulls the mp_new_client calls among them that have returned NULL.
NoLocks ==
    [registry |-> 0,
     lock |-> [c \in Handles |-> 0],
     pc |-> [t \in Threads |-> LockIdle],
     calls |-> 0,
     nulls |-> 0,
     order |-> <<>>]

\* The handles of the registry's table.
Registered == {clients[n] : n \in DOMAIN clients}

\* The state once the handles of table have been created, before
\* mpv_initialize (initialized is FALSE) or after it.
InitEngine(table, initialized) ==
    /\ clients = table
    /\ handle = [c \in Handles |->
                   IF \E i \in DOMAIN table : table[i] = c
                   THEN [mp_new_client EXCEPT !.name =
                            CreatedNames(Len(table))[
                                CHOOSE i \in DOMAIN table : table[i] = c]]
                   ELSE mp_new_client]
    /\ waiter = [c \in Handles |-> NoWaiter]
    /\ thr = [t \in Threads |-> [pc |-> "idle", req |-> NoRequest]]
    /\ ret = [t \in Threads |-> Returned(NULL, 0)]
    /\ dispatch = <<>>
    /\ fatal = "none"
    /\ issued = [c \in Handles |-> <<>>]
    /\ nsent = [c \in Handles |-> [r \in 1 .. MaxReplyId + 1 |-> 0]]
    /\ mpctx = Engine(initialized)
    /\ heap = [p \in Payloads |-> NoPayload]
    /\ lk = NoLocks

\* The state once the handles of table have been created and the engine
\* has been initialized.
InitWith(table) == InitEngine(table, TRUE)

Init == InitWith(<<1>>)

\* The state mpv_create leaves: the client "main" on an engine that is not
\* initialized.
InitCreated == InitEngine(<<1>>, FALSE)

\* --------------------------------------------------------- async requests

Count(seq, x) == Cardinality({i \in DOMAIN seq : seq[i] = x})

\* run_async up to the return of reserve_reply, called by thread t on handle
\* c with the request fn_data.  A full buffer returns the error code; else
\* the thread holds the reply ID and goes on to enqueue the request.
run_async(t, c, fn, format) ==
    LET rr == reserve_reply(handle[c])
    IN /\ thr[t].pc = "idle"
       /\ rr.res <= MaxReplyId
       /\ IF rr.res < 0
          THEN /\ ret' = [ret EXCEPT ![t] = Returned(c, rr.res)]
               /\ UNCHANGED <<handle, thr, issued, mpctx, heap, lk>>
          ELSE /\ handle' = [handle EXCEPT ![c] = rr.ctx]
               /\ thr' = [thr EXCEPT ![t] =
                            [pc |-> "enqueue",
                             req |-> [Request(fn, c, rr.res, format, 0)
                                        EXCEPT !.thread = t]]]
               /\ issued' = [issued EXCEPT ![c] = Append(@, rr.res)]
               /\ UNCHANGED ret
       /\ UNCHANGED <<clients, waiter, dispatch, fatal, nsent, mpctx, heap, lk>>

\* The rest of run_async with the request put at the head of the dispatch
\* queue.
run_async_enqueue_front(t) ==
    /\ thr[t].pc = "enqueue"
    /\ dispatch' = <<thr[t].req>> \o dispatch
    /\ ret' = [ret EXCEPT ![t] =
                 Returned(thr[t].req.reply_ctx, thr[t].req.reply_id)]
    /\ thr' = [thr EXCEPT ![t] = [pc |-> "idle", req |-> NoRequest]]
    /\ UNCHANGED <<clients, handle, waiter, fatal, issued, nsent, mpctx,
                   heap, lk>>

\* The rest of run_async: mp_dispatch_enqueue_autofree, return reply_id.
run_async_enqueue(t) ==
    /\ thr[t].pc = "enqueue"
    /\ dispatch' = Append(dispatch, thr[t].req)
    /\ ret' = [ret EXCEPT ![t] =
                 Returned(thr[t].req.reply_ctx, thr[t].req.reply_id)]
    /\ thr' = [thr EXCEPT ![t] = [pc |-> "idle", req |-> NoRequest]]
    /\ UNCHANGED <<clients, handle, waiter, fatal, issued, nsent, mpctx, heap, lk>>

\* Thread t returns r from a call on handle c that has changed nothing.
Return(t, c, r) ==
    /\ thr[t].pc = "idle"
    /\ ret' = [ret EXCEPT ![t] = Returned(c, r)]
    /\ UNCHANGED <<clients, handle, waiter, thr, dispatch, fatal, issued,
                   nsent, mpctx, heap, lk>>

\* mpv_command_async without the look at mpctx->initialized.
mpv_command_async_unchecked(t, c) ==
    run_async(t, c, "cmd_fn", MPV_FORMAT_NONE)

\* The command parses.
mpv_command_async(t, c) ==
    IF ~mpctx.initialized
    THEN Return(t, c, MPV_ERROR_UNINITIALIZED)
    ELSE run_async(t, c, "cmd_fn", MPV_FORMAT_NONE)

mpv_set_property_async(t, c, format) ==
    IF ~mpctx.initialized
    THEN Return(t, c, MPV_ERROR_UNINITIALIZED)
    ELSE IF format # MPV_FORMAT_STRING
    THEN Return(t, c, MPV_ERROR_INVALID_PARAMETER)
    ELSE run_async(t, c, "setproperty_fn", format)

mpv_get_property_async(t, c, format) ==
    IF ~mpctx.initialized
    THEN Return(t, c, MPV_ERROR_UNINITIALIZED)
    ELSE run_async(t, c, "getproperty_fn", format)

\* -------------------------------------------------------- blocking requests

\* run_locked: mp_dispatch_run puts the request, which lives on the stack of
\* thread t and replies to no handle, on the dispatch queue and blocks t
\* until the playback thread has run it.
run_locked(t, c, fn, format) ==
    /\ thr[t].pc = "idle"
    /\ dispatch' = Append(dispatch, Request(fn, NULL, 0, format, t))
    /\ thr' = [thr EXCEPT ![t] =
                 [pc |-> "run_locked",
                  req |-> Request(fn, NULL, 0, format, t),
                  ctx |-> c]]
    /\ UNCHANGED <<clients, handle, waiter, ret, fatal, issued, nsent, mpctx,
                   heap, lk>>

\* cmd: what the parser returned (NULL: the command does not parse).
run_client_command(t, c, cmd) ==
    IF ~mpctx.initialized
    THEN Return(t, c, MPV_ERROR_UNINITIALIZED)
    ELSE IF cmd = NULL
    THEN Return(t, c, MPV_ERROR_INVALID_PARAMETER)
    ELSE run_locked(t, c, "cmd_fn", MPV_FORMAT_NONE)

\* mp_input_parse_cmd_strv, then run_client_command.
mpv_command(t, c, cmd) == run_client_command(t, c, cmd)

\* mp_input_parse_cmd, then run_client_command.
mpv_command_string(t, c, cmd) == run_client_command(t, c, cmd)

mpv_set_property(t, c, format) ==
    IF ~mpctx.initialized
    THEN Return(t, c, MPV_ERROR_UNINITIALIZED)
    ELSE IF format # MPV_FORMAT_STRING
    THEN Return(t, c, MPV_ERROR_INVALID_PARAMETER)
    ELSE run_locked(t, c, "setproperty_fn", format)

mpv_get_property(t, c, format) ==
    IF ~mpctx.initialized
    THEN Return(t, c, MPV_ERROR_UNINITIALIZED)
    ELSE run_locked(t, c, "getproperty_fn", format)

\* mpv_initialize by thread t on handle c. outcome: mp_initialize fails, or
\* it succeeds and pthread_create fails (the engine is initialized and has
\* no playback thread), or both succeed.
mpv_initialize(t, c, outcome) ==
    /\ thr[t].pc = "idle"
    /\ ~mpctx.initialized
    /\ CASE outcome = "mp_initialize fails" ->
               /\ ret' = [ret EXCEPT ![t] =
                            Returned(c, MPV_ERROR_INVALID_PARAMETER)]
               /\ UNCHANGED mpctx
         [] outcome = "pthread_create fails" ->
               /\ ret' = [ret EXCEPT ![t] = Returned(c, MPV_ERROR_NOMEM)]
               /\ mpctx' = [mpctx EXCEPT !.initialized = TRUE]
         [] outcome = "ok" ->
               /\ ret' = [ret EXCEPT ![t] = Returned(c, 0)]
               /\ mpctx' = [mpctx EXCEPT !.initialized = TRUE,
                                         !.playback = TRUE]
    /\ UNCHANGED <<clients, handle, waiter, thr, dispatch, fatal, issued,
                   nsent, heap, lk>>

\* ------------------------------------------------------- playback thread

\* The callback of a request, run on the handle it replies to.
RunFn(ctx, req, err) ==
    CASE req.fn = "cmd_fn" -> cmd_fn(ctx, req)
      [] req.fn = "setproperty_fn" -> setproperty_fn(ctx, req, err)
      [] req.fn = "getproperty_fn" -> getproperty_fn(ctx, req, err)

\* The playback thread takes the oldest request off the dispatch queue and
\* runs its callback; err is what mp_property_do returns in it.
\* A request of mp_dispatch_run replies to no handle: its status goes to
\* the thread blocked on it, which returns it.  When mpv_destroy has freed
\* the handle the request replies to, the callback works on freed memory,
\* which either goes unnoticed or ends the process.
DispatchEffect(err) ==
    /\ mpctx.playback
    /\ dispatch # <<>>
    /\ LET req == Head(dispatch)
       IN IF req.reply_ctx = NULL
          THEN LET t == req.caller
                   o == RunFn(handle[thr[t].ctx], req, err)
               IN /\ dispatch' = Tail(dispatch)
                  /\ ret' = [ret EXCEPT ![t] =
                               Returned(thr[t].ctx, o.status)]
                  /\ thr' = [thr EXCEPT ![t] =
                               [pc |-> "idle", req |-> NoRequest]]
                  /\ UNCHANGED <<handle, fatal, nsent>>
          ELSE IF handle[req.reply_ctx].name = NoName
          THEN /\ dispatch' = Tail(dispatch)
               /\ fatal' \in {"none", "use after free in send_reply"}
               /\ nsent' = [nsent EXCEPT ![req.reply_ctx][req.reply_id] =
                              @ + 1]
               /\ UNCHANGED <<handle, thr, ret>>
          ELSE LET c == req.reply_ctx
                   o == RunFn(handle[c], req, err)
               IN /\ dispatch' = Tail(dispatch)
                  /\ handle' = [handle EXCEPT ![c] = o.out.ctx]
                  /\ fatal' = o.out.fatal
                  /\ nsent' = [nsent EXCEPT ![c] =
                                 [r \in DOMAIN @ |->
                                     @[r] + Count(o.out.replies, r)]]
                  /\ UNCHANGED <<thr, ret>>
    /\ UNCHANGED <<clients, waiter, issued, mpctx, heap>>

DispatchProcess(err) ==
    /\ DispatchEffect(err)
    /\ UNCHANGED lk

\* ----------------------------------------------------------------- events

\* talloc_free(data): one more free of payload data (nothing for NULL).
talloc_free(h, data) ==
    IF data = NULL THEN h
    ELSE [h EXCEPT ![data] = [live |-> FALSE, nfree |-> @.nfree + 1]]

\* talloc_free of every payload of the sequence datas, in order.
RECURSIVE talloc_free_all(_, _)
talloc_free_all(h, datas) ==
    IF datas = <<>> THEN h
    ELSE talloc_free_all(talloc_free(h, Head(datas)), Tail(datas))

\* mp_client_broadcast_event: send_event on every handle of the table, under
\* the registry lock, with the same event record (and so the same data
\* pointer) for all; then talloc_free(data).  data is NULL or a payload the
\* caller has just allocated.
mp_client_broadcast_event(event, data) ==
    LET event_data == [mpv_event_data(event, 0) EXCEPT !.data = data]
        out == [c \in Registered |-> send_event(handle[c], event_data)]
    IN /\ data # NULL => heap[data] = NoPayload
       /\ handle' = [c \in Handles |->
                       IF c \in Registered THEN out[c].ctx ELSE handle[c]]
       /\ fatal' = IF \E c \in Registered : out[c].fatal # "none"
                   THEN "abort in send_event" ELSE "none"
       /\ heap' = IF fatal' # "none" THEN heap ELSE talloc_free(heap, data)
       /\ UNCHANGED <<clients, waiter, thr, ret, dispatch, issued, nsent,
                      mpctx, lk>>

\* mpv_request_event taking every nonzero enable for "on".
request_event_unchecked(ctx, event, enable) ==
    IF event \notin EventIds
    THEN [ctx |-> ctx, r |-> MPV_ERROR_INVALID_PARAMETER]
    ELSE [ctx |-> [ctx EXCEPT !.event_mask =
                      IF enable # 0 THEN @ \cup {event} ELSE @ \ {event}],
          r |-> 0]

\* The body of mpv_request_event on the handle ctx: the handle after the
\* call and the value the call returns.
request_event(ctx, event, enable) ==
    IF event \notin EventIds \/ enable < 0 \/ enable > 1
    THEN [ctx |-> ctx, r |-> MPV_ERROR_INVALID_PARAMETER]
    ELSE [ctx |-> [ctx EXCEPT !.event_mask =
                      IF enable # 0 THEN @ \cup {event} ELSE @ \ {event}],
          r |-> 0]

\* A mpv_request_event call whose caller drops the value returned.
mpv_request_event(c, event, enable) ==
    /\ handle' = [handle EXCEPT ![c] = request_event(@, event, enable).ctx]
    /\ UNCHANGED <<clients, waiter, thr, ret, dispatch, fatal, issued, nsent, mpctx, heap, lk>>

\* A mpv_request_event call by thread t, with the value it returns.
mpv_request_event_by(t, c, event, enable) ==
    /\ handle' = [handle EXCEPT ![c] = request_event(@, event, enable).ctx]
    /\ ret' = [ret EXCEPT ![t] =
                 Returned(c, request_event(handle[c], event, enable).r)]
    /\ UNCHANGED <<clients, waiter, thr, dispatch, fatal, issued, nsent, mpctx, heap, lk>>

\* mpv_wakeup without ctx->queued_wakeup = true.
wakeup_not_queued(ctx) == wakeup_client(ctx)

\* The statements of mpv_wakeup under the handle lock.
wakeup(ctx) == wakeup_client([ctx EXCEPT !.queued_wakeup = TRUE])

mpv_wakeup(c) ==
    /\ handle' = [handle EXCEPT ![c] = wakeup(@)]
    /\ waiter' = [waiter EXCEPT ![c].woken = TRUE]
    /\ UNCHANGED <<clients, thr, ret, dispatch, fatal, issued, nsent, mpctx, heap, lk>>

\* mpv_set_wakeup_callback(ctx, cb, d): cb is TRUE for a function, FALSE for
\* NULL.
mpv_set_wakeup_callback(c, cb) ==
    /\ handle' = [handle EXCEPT ![c].wakeup_cb = cb]
    /\ UNCHANGED <<clients, waiter, thr, ret, dispatch, fatal, issued, nsent, mpctx, heap, lk>>

\* ----------------------------------------------------------- mpv_wait_event

\* The end of mpv_wait_event: the statements after the loop.
wait_event_return(ctx) ==
    [ctx EXCEPT !.queued_wakeup = FALSE, !.wakeup = "idle"]

\* The loop of mpv_wait_event reading the newest record of the ring.
wait_event_loop_newest(ctx, timeout) ==
    IF mp_ring_buffered(ctx.events) > 0
    THEN wait_event_return(
             [ctx EXCEPT !.cur_event = ctx.events[Len(ctx.events)],
                         !.events = SubSeq(@, 1, Len(@) - 1)])
    ELSE IF ctx.shutdown
    THEN wait_event_return([ctx EXCEPT !.cur_event.event_id =
                                           MPV_EVENT_SHUTDOWN])
    ELSE IF ctx.messages > 0
    THEN wait_event_return([ctx EXCEPT !.cur_event.event_id =
                                           MPV_EVENT_LOG_MESSAGE,
                                       !.messages = @ - 1])
    ELSE IF ctx.queued_wakeup
    THEN wait_event_return(ctx)
    ELSE IF timeout <= 0
    THEN wait_event_return(ctx)
    ELSE [ctx EXCEPT !.wakeup = "waiting"]

\* The loop of mpv_wait_event without the test of ctx->shutdown.
wait_event_loop_no_shutdown(ctx, timeout) ==
    IF mp_ring_buffered(ctx.events) > 0
    THEN wait_event_return([ctx EXCEPT !.cur_event = Head(ctx.events),
                                       !.events = Tail(@)])
    ELSE IF ctx.messages > 0
    THEN wait_event_return([ctx EXCEPT !.cur_event.event_id =
                                           MPV_EVENT_LOG_MESSAGE,
                                       !.messages = @ - 1])
    ELSE IF ctx.queued_wakeup
    THEN wait_event_return(ctx)
    ELSE IF timeout <= 0
    THEN wait_event_return(ctx)
    ELSE [ctx EXCEPT !.wakeup = "waiting"]

\* The loop of mpv_wait_event with the test of ctx->shutdown ahead of the
\* test of the ring.
wait_event_loop_shutdown_first(ctx, timeout) ==
    IF ctx.shutdown
    THEN wait_event_return([ctx EXCEPT !.cur_event.event_id =
                                           MPV_EVENT_SHUTDOWN])
    ELSE IF mp_ring_buffered(ctx.events) > 0
    THEN wait_event_return([ctx EXCEPT !.cur_event = Head(ctx.events),
                                       !.events = Tail(@)])
    ELSE IF ctx.messages > 0
    THEN wait_event_return([ctx EXCEPT !.cur_event.event_id =
                                           MPV_EVENT_LOG_MESSAGE,
                                       !.messages = @ - 1])
    ELSE IF ctx.queued_wakeup
    THEN wait_event_return(ctx)
    ELSE IF timeout <= 0
    THEN wait_event_return(ctx)
    ELSE [ctx EXCEPT !.wakeup = "waiting"]

\* The loop of mpv_wait_event with timeout < 0 as its last test.
wait_event_loop_zero_waits(ctx, timeout) ==
    IF mp_ring_buffered(ctx.events) > 0
    THEN wait_event_return([ctx EXCEPT !.cur_event = Head(ctx.events),
                                       !.events = Tail(@)])
    ELSE IF ctx.shutdown
    THEN wait_event_return([ctx EXCEPT !.cur_event.event_id =
                                           MPV_EVENT_SHUTDOWN])
    ELSE IF ctx.messages > 0
    THEN wait_event_return([ctx EXCEPT !.cur_event.event_id =
                                           MPV_EVENT_LOG_MESSAGE,
                                       !.messages = @ - 1])
    ELSE IF ctx.queued_wakeup
    THEN wait_event_return(ctx)
    ELSE IF timeout < 0
    THEN wait_event_return(ctx)
    ELSE [ctx EXCEPT !.wakeup = "waiting"]

\* One pass of the loop of mpv_wait_event under the handle lock: it either
\* leaves the loop and returns, or blocks in pthread_cond_timedwait.
wait_event_loop(ctx, timeout) ==
    IF mp_ring_buffered(ctx.events) > 0
    THEN wait_event_return([ctx EXCEPT !.cur_event = Head(ctx.events),
                                       !.events = Tail(@)])
    ELSE IF ctx.shutdown
    THEN wait_event_return([ctx EXCEPT !.cur_event.event_id =
                                           MPV_EVENT_SHUTDOWN])
    ELSE IF ctx.messages > 0
    THEN wait_event_return([ctx EXCEPT !.cur_event.event_id =
                                           MPV_EVENT_LOG_MESSAGE,
                                       !.messages = @ - 1])
    ELSE IF ctx.queued_wakeup
    THEN wait_event_return(ctx)
    ELSE IF timeout <= 0
    THEN wait_event_return(ctx)
    ELSE [ctx EXCEPT !.wakeup = "waiting"]

\* talloc_steal(event, event->data) on the record the loop has just read
\* off the ring (before is the handle before the pass, h the heap): when
\* the payload has been freed already the call works on freed memory, which
\* either goes unnoticed or ends the process.
talloc_steal(before, after, h) ==
    IF /\ Len(after.events) < Len(before.events)
       /\ after.cur_event.data # NULL
       /\ ~h[after.cur_event.data].live
    THEN {"none", "use after free in mpv_wait_event"}
    ELSE {"none"}

\* A call of mpv_wait_event(ctx, timeout) up to its return or its first
\* pthread_cond_timedwait.  talloc_free_children(event) frees the payload
\* of the event the previous call returned.
mpv_wait_event(c, timeout) ==
    /\ handle[c].wakeup = "idle"
    /\ handle' = [handle EXCEPT ![c] =
          wait_event_loop([@ EXCEPT !.cur_event =
                                        mpv_event_data(MPV_EVENT_NONE, 0)],
                          timeout)]
    /\ waiter' = [waiter EXCEPT ![c] =
          IF handle'[c].wakeup = "idle" THEN NoWaiter
          ELSE [timeout |-> timeout, expired |-> FALSE, timedout |-> FALSE,
                woken |-> FALSE]]
    /\ heap' = talloc_free(heap, handle[c].cur_event.data)
    /\ fatal' \in talloc_steal(handle[c], handle'[c], heap')
    /\ UNCHANGED <<clients, thr, ret, dispatch, issued, nsent, mpctx, lk>>

\* The deadline of the call in progress passes.
DeadlinePasses(c) ==
    /\ handle[c].wakeup # "idle"
    /\ ~waiter[c].expired
    /\ waiter' = [waiter EXCEPT ![c].expired = TRUE]
    /\ UNCHANGED <<clients, handle, thr, ret, dispatch, fatal, issued, nsent, mpctx, heap, lk>>

\* pthread_cond_timedwait returns, signalled or with the deadline passed
\* (ETIMEDOUT, which the code does not look at), and the loop runs again.
\* timedout records that the call went back to waiting after a return that
\* came with the deadline passed.
wait_event_wakes(c) ==
    /\ handle[c].wakeup # "idle"
    /\ handle[c].wakeup = "signaled" \/ waiter[c].expired
    /\ handle' = [handle EXCEPT ![c] =
                    wait_event_loop(@, waiter[c].timeout)]
    /\ waiter' = [waiter EXCEPT ![c] =
          IF handle'[c].wakeup = "idle" THEN NoWaiter
          ELSE [@ EXCEPT !.timedout = @ \/ waiter[c].expired]]
    /\ fatal' \in talloc_steal(handle[c], handle'[c], heap)
    /\ UNCHANGED <<clients, thr, ret, dispatch, issued, nsent, mpctx, heap, lk>>

\* ---------------------------------------------------------------- registry

\* The names of the table's clients.
RegisteredNames == {handle[c].name : c \in Registered}

\* mp_new_client(clients, name) under the registry lock: the name search,
\* then the new handle is appended to the table (c: the memory talloc
\* hands out, a slot that holds no client).  When no name is free the call
\* returns NULL and the table is as before.
NewClientEffect(name) ==
    LET un == unique_name(RegisteredNames, name)
        c == CHOOSE x \in Handles \ Registered :
                 \A y \in Handles \ Registered : x <= y
    IN IF un = NoName
       THEN UNCHANGED <<clients, handle>>
       ELSE /\ Handles \ Registered # {}
            /\ clients' = Append(clients, c)
            /\ handle' = [handle EXCEPT ![c] =
                             [mp_new_client EXCEPT !.name = un]]

NewClient(name) ==
    /\ NewClientEffect(name)
    /\ UNCHANGED <<waiter, thr, ret, dispatch, fatal, issued, nsent,
                   mpctx, heap, lk>>

\* mp_clients_num.
mp_clients_num == Len(clients)

\* ----------------------------------------------------------------- destroy

\* The table without its last entry, whichever handle is destroyed.
RemoveClient_last(table, c) == SubSeq(table, 1, Len(table) - 1)

\* The table without the entry of handle c (MP_TARRAY_REMOVE_AT).
RemoveClient(table, c) ==
    SelectSeq(table, LAMBDA x : x # c)

\* mpv_destroy(ctx), called by the client's own thread outside
\* mpv_wait_event on a handle of the table: under the registry lock the
\* handle leaves the table, every record still in the ring is read and its
\* payload freed, and talloc_free(ctx) frees the handle together with
\* cur_event and the payload cur_event owns.  The slot of a freed handle
\* reads as a fresh one.
DestroyEffect(c) ==
    /\ c \in Registered
    /\ handle[c].wakeup = "idle"
    /\ clients' = RemoveClient(clients, c)
    /\ heap' = talloc_free(
                   talloc_free_all(heap,
                       [i \in DOMAIN handle[c].events |->
                           handle[c].events[i].data]),
                   handle[c].cur_event.data)
    /\ handle' = [handle EXCEPT ![c] = mp_new_client]
    /\ waiter' = [waiter EXCEPT ![c] = NoWaiter]

mpv_destroy(c) ==
    /\ DestroyEffect(c)
    /\ UNCHANGED <<thr, ret, dispatch, fatal, issued, nsent, mpctx, lk>>

\* ------------------------------------------------------------------ locks

\* The lock classes of the calls, with mp_client_send_event taking the lock
\* of the handle before the registry lock.
LockPlan_handle_first(op) ==
    CASE op = "send_to" -> <<"handle", "registry">>
      [] op = "broadcast" -> <<"registry", "handle">>
      [] op \in {"new_client", "destroy"} -> <<"registry">>
      [] OTHER -> <<"handle">>

\* The lock classes a call takes, in the order in which it takes them:
\* mp_client_broadcast_event and mp_client_send_event take the registry
\* lock and call send_event inside it, mp_new_client and mpv_destroy take
\* the registry lock only, and reserve_reply, send_reply, mpv_request_event,
\* mpv_wakeup and mpv_wait_event take the lock of their handle only.
LockPlan(op) ==
    CASE op \in {"broadcast", "send_to"} -> <<"registry", "handle">>
      [] op \in {"new_client", "destroy"} -> <<"registry">>
      [] OTHER -> <<"handle">>

\* A registry lock that excludes nobody.
RegistryFree_always(l) == TRUE

\* pthread_mutex_lock returns only when the mutex has no owner.
RegistryFree(l) == l.registry = 0

HandleFree(l, c) == l.lock[c] = 0

\* The handle whose lock the call of thread t takes: the table's n-th
\* client for a broadcast, the client find_client returns for a targeted
\* send (0: there is none), the handle the call was made on otherwise.
LockTarget(t) ==
    LET pc == lk.pc[t]
    IN CASE pc.op = "broadcast" ->
              IF pc.n <= Len(clients) THEN clients[pc.n] ELSE 0
         [] pc.op = "send_to" ->
              IF \E c \in Registered : handle[c].name = pc.arg
              THEN CHOOSE c \in Registered : handle[c].name = pc.arg
              ELSE 0
         [] OTHER -> pc.ctx

\* Thread t enters a call and takes the first lock of its plan.
LockStart(t, op, ctx, event, arg) ==
    LET plan == LockPlan(op)
        pc == [op |-> op, at |-> "acquire", n |-> 1, ctx |-> ctx,
               event |-> event, arg |-> arg]
        first == [lk EXCEPT !.pc[t] = pc, !.calls = @ + 1]
        target == LET c == ctx IN
                  IF op = "send_to"
                  THEN IF \E x \in Registered : handle[x].name = arg
                       THEN CHOOSE x \in Registered : handle[x].name = arg
                       ELSE 0
                  ELSE IF op = "broadcast"
                  THEN IF clients # <<>> THEN clients[1] ELSE 0
                  ELSE c
    IN /\ lk.pc[t].at = "idle"
       /\ lk.calls < MaxCalls
       /\ IF plan[1] = "registry"
          THEN /\ RegistryFree(lk)
               /\ lk' = [first EXCEPT
                           !.registry = t,
                           !.pc[t].at = IF Len(plan) = 1 THEN "locked"
                                        ELSE "acquire",
                           !.order = IF op = "broadcast"
                                     THEN Append(@, event) ELSE @]
          ELSE /\ target # 0
               /\ HandleFree(lk, target)
               /\ lk' = [first EXCEPT
                           !.lock[target] = t,
                           !.pc[t].ctx = target,
                           !.pc[t].at = IF Len(plan) = 1 THEN "locked"
                                        ELSE "acquire"]
       /\ UNCHANGED <<clients, handle, waiter, thr, ret, dispatch, fatal,
                      issued, nsent, mpctx, heap>>

\* The lock thread t takes next (it has taken the first of its plan).
LockWanted(t) ==
    IF lk.pc[t].at = "acquire" THEN LockPlan(lk.pc[t].op)[2] ELSE "none"

\* Thread t takes the second lock of its plan.  A broadcast over an empty
\* table and a targeted send to a name no client has take no handle lock.
LockAcquire(t) ==
    /\ lk.pc[t].at = "acquire"
    /\ IF LockWanted(t) = "registry"
       THEN /\ RegistryFree(lk)
            /\ lk' = [lk EXCEPT !.registry = t, !.pc[t].at = "locked"]
       ELSE LET target == LockTarget(t)
            IN IF target = 0
               THEN lk' = [lk EXCEPT !.pc[t].at = "locked",
                                     !.pc[t].ctx = 0]
               ELSE /\ HandleFree(lk, target)
                    /\ lk' = [lk EXCEPT !.lock[target] = t,
                                        !.pc[t].at = "locked",
                                        !.pc[t].ctx = target]
    /\ UNCHANGED <<clients, handle, waiter, thr, ret, dispatch, fatal,
                   issued, nsent, mpctx, heap>>

\* pthread_mutex_unlock(&ctx->lock) by thread t.
HandleUnlock(l, t) ==
    [l EXCEPT !.lock = [c \in Handles |-> IF @[c] = t THEN 0 ELSE @[c]]]

\* pthread_mutex_unlock(&clients->lock) by thread t.
RegistryUnlock(l, t) ==
    [l EXCEPT !.registry = IF @ = t THEN 0 ELSE @]

\* What the call of thread t does inside its locks.
LockEffect(t) ==
    LET pc == lk.pc[t]
        c == pc.ctx
    IN CASE pc.op \in {"broadcast", "send_to"} /\ c # 0 ->
              LET out == send_event(handle[c], mpv_event_data(pc.event, 0))
              IN /\ handle' = [handle EXCEPT ![c] = out.ctx]
                 /\ fatal' = out.fatal
                 /\ UNCHANGED <<clients, heap, waiter>>
         [] pc.op = "new_client" ->
              /\ NewClientEffect(pc.arg)
              /\ UNCHANGED <<fatal, heap, waiter>>
         [] pc.op = "destroy" ->
              /\ DestroyEffect(c)
              /\ UNCHANGED fatal
         [] pc.op = "reserve_reply" ->
              /\ handle' = [handle EXCEPT ![c] = reserve_reply(@).ctx]
              /\ UNCHANGED <<clients, fatal, heap, waiter>>
         [] pc.op = "send_reply" ->
              LET out == send_reply(handle[c], 0,
                                    mpv_event_data(MPV_EVENT_OK, 0))
              IN /\ handle' = [handle EXCEPT ![c] = out.ctx]
                 /\ fatal' = out.fatal
                 /\ UNCHANGED <<clients, heap, waiter>>
         [] pc.op = "request_event" ->
              /\ handle' = [handle EXCEPT ![c].event_mask =
                               IF pc.arg # 0 THEN @ \cup {pc.event}
                               ELSE @ \ {pc.event}]
              /\ UNCHANGED <<clients, fatal, heap, waiter>>
         [] pc.op = "wakeup" ->
              /\ handle' = [handle EXCEPT ![c] = wakeup(@)]
              /\ UNCHANGED <<clients, fatal, heap, waiter>>
         [] pc.op = "wait_event" ->
              /\ handle' = [handle EXCEPT ![c] =
                     wait_event_loop(
                         [@ EXCEPT !.cur_event =
                                       mpv_event_data(MPV_EVENT_NONE, 0)],
                         0)]
              /\ heap' = talloc_free(heap, handle[c].cur_event.data)
              /\ UNCHANGED <<clients, fatal, waiter>>
         [] OTHER -> UNCHANGED <<clients, handle, fatal, heap, waiter>>

\* LockBody with mp_new_client returning NULL before it has unlocked the
\* registry.
LockBody_null_keeps_lock(t) ==
    /\ lk.pc[t].at = "locked"
    /\ LockEffect(t)
    /\ LET l == HandleUnlock(lk, t)
       IN IF lk.pc[t].op = "broadcast" /\ lk.pc[t].n < Len(clients')
          THEN lk' = [l EXCEPT !.pc[t].at = "acquire",
                               !.pc[t].n = @ + 1]
          ELSE IF lk.pc[t].op = "new_client" /\ clients' = clients
          THEN lk' = [l EXCEPT !.pc[t] = LockIdle, !.nulls = @ + 1]
          ELSE lk' = [RegistryUnlock(l, t) EXCEPT !.pc[t] = LockIdle]
    /\ UNCHANGED <<thr, ret, dispatch, issued, nsent, mpctx>>

\* Thread t runs the region it has locked and unlocks: the handle lock
\* first; then a broadcast goes on to the next client of the table, and
\* every other call, and a broadcast that is through the table, gives up
\* the registry lock and returns.
LockBody(t) ==
    /\ lk.pc[t].at = "locked"
    /\ LockEffect(t)
    /\ LET l == HandleUnlock(lk, t)
       IN IF lk.pc[t].op = "broadcast" /\ lk.pc[t].n < Len(clients')
          THEN lk' = [l EXCEPT !.pc[t].at = "acquire",
                               !.pc[t].n = @ + 1]
          ELSE lk' = [RegistryUnlock(l, t) EXCEPT
                        !.pc[t] = LockIdle,
                        !.nulls = IF /\ lk.pc[t].op = "new_client"
                                     /\ clients' = clients
                                  THEN @ + 1 ELSE @]
    /\ UNCHANGED <<thr, ret, dispatch, issued, nsent, mpctx>>

\* ---------------------------------------------------------------- teardown

\* The owner the playback thread is known by in the handle locks.
PlaybackThread == 2

\* The playback thread enters send_reply for the oldest request of the
\* dispatch queue: pthread_mutex_lock(&ctx->lock) on the handle the request
\* replies to.  On a handle mpv_destroy has freed the call works on a
\* destroyed mutex in freed memory: it goes through or ends the process.
DispatchLock ==
    /\ mpctx.playback
    /\ dispatch # <<>>
    /\ Head(dispatch).reply_ctx # NULL
    /\ lk.pc[PlaybackThread].at = "idle"
    /\ LET c == Head(dispatch).reply_ctx
           pc == [LockIdle EXCEPT !.op = "send_reply", !.at = "locked",
                                  !.ctx = c]
       IN IF handle[c].name = NoName
          THEN /\ fatal' \in {"none", "use after free in send_reply"}
               /\ lk' = [lk EXCEPT !.pc[PlaybackThread] = pc]
          ELSE /\ HandleFree(lk, c)
               /\ lk' = [lk EXCEPT !.lock[c] = PlaybackThread,
                                   !.pc[PlaybackThread] = pc]
               /\ UNCHANGED fatal
    /\ UNCHANGED <<clients, handle, waiter, thr, ret, dispatch, issued,
                   nsent, mpctx, heap>>

\* The playback thread runs the callback of the request whose handle it
\* has locked, and unlocks.
DispatchLocked(err) ==
    /\ lk.pc[PlaybackThread].at = "locked"
    /\ DispatchEffect(err)
    /\ lk' = [HandleUnlock(lk, PlaybackThread) EXCEPT
                !.pc[PlaybackThread] = LockIdle]

\* mp_client_send_event(mpctx, client_name, event, data), called by the
\* playback thread with data NULL or a payload it has just allocated:
\* send_event on the client find_client returns, and with no such client
\* talloc_free(data) and -1.
mp_client_send_event(client_name, event, data) ==
    LET event_data == [mpv_event_data(event, 0) EXCEPT !.data = data]
        allocated == IF data = NULL THEN heap
                     ELSE [heap EXCEPT ![data].live = TRUE]
    IN /\ data # NULL => heap[data] = NoPayload
       /\ IF \E c \in Registered : handle[c].name = client_name
          THEN LET ctx == CHOOSE c \in Registered :
                              handle[c].name = client_name
                   out == send_event(handle[ctx], event_data)
               IN /\ handle' = [handle EXCEPT ![ctx] = out.ctx]
                  /\ fatal' = out.fatal
                  /\ heap' = allocated
                  /\ ret' = [ret EXCEPT ![PlaybackThread] =
                               Returned(NULL, out.r)]
          ELSE /\ heap' = talloc_free(allocated, data)
               /\ ret' = [ret EXCEPT ![PlaybackThread] = Returned(NULL, -1)]
               /\ UNCHANGED <<handle, fatal>>
       /\ UNCHANGED <<clients, waiter, thr, dispatch, issued, nsent, mpctx,
                      lk>>

\* --------------------------------------------------------------------- log

\* The names of the log levels 0 .. MSGL_MAX (mp_log_levels of common/msg.c).
mp_log_levels ==
    <<"fatal", "error", "warn", "info", "status", "v", "debug", "trace">>

\* The loop of mpv_request_log_messages over mp_log_levels: the level with
\* the name min_level, -1 when there is none.
log_level(min_level) ==
    IF \E n \in DOMAIN mp_log_levels : mp_log_levels[n] = min_level
    THEN (CHOOSE n \in DOMAIN mp_log_levels : mp_log_levels[n] = min_level) - 1
    ELSE -1

\* mp_msg_log_buffer_destroy(ctx->messages); ctx->messages = NULL.
mp_msg_log_buffer_destroy(ctx) ==
    [ctx EXCEPT !.messages_buf = NULL, !.messages = 0]

\* ctx->messages = mp_msg_log_buffer_new(global, 1000, level): a new, empty
\* buffer.
mp_msg_log_buffer_new(ctx) ==
    [ctx EXCEPT !.messages_buf = ctx.nbuffers + 1, !.messages = 0,
                !.nbuffers = @ + 1]

\* mpv_request_log_messages making a new buffer whatever the level in
\* effect is.
request_log_messages_renew(ctx, min_level) ==
    LET level == log_level(min_level)
    IN IF level < 0 /\ min_level # "no"
       THEN [ctx |-> ctx, r |-> MPV_ERROR_INVALID_PARAMETER]
       ELSE LET closed == mp_msg_log_buffer_destroy(ctx)
            IN [ctx |-> [(IF level >= 0 THEN mp_msg_log_buffer_new(closed)
                          ELSE closed) EXCEPT !.messages_level = level],
                r |-> 0]

\* The body of mpv_request_log_messages on the handle ctx: the handle after
\* the call and the value the call returns.
request_log_messages(ctx, min_level) ==
    LET level == log_level(min_level)
        c1 == IF ctx.messages_buf = NULL
              THEN [ctx EXCEPT !.messages_level = -1] ELSE ctx
    IN IF level < 0 /\ min_level # "no"
       THEN [ctx |-> ctx, r |-> MPV_ERROR_INVALID_PARAMETER]
       ELSE IF c1.messages_level # level
       THEN LET closed == mp_msg_log_buffer_destroy(c1)
            IN [ctx |-> [(IF level >= 0 THEN mp_msg_log_buffer_new(closed)
                          ELSE closed) EXCEPT !.messages_level = level],
                r |-> 0]
       ELSE [ctx |-> c1, r |-> 0]

\* A mpv_request_log_messages call by thread t.
mpv_request_log_messages(t, c, min_level) ==
    /\ handle' = [handle EXCEPT ![c] =
                    request_log_messages(@, min_level).ctx]
    /\ ret' = [ret EXCEPT ![t] =
                 Returned(c, request_log_messages(handle[c], min_level).r)]
    /\ UNCHANGED <<clients, waiter, thr, dispatch, fatal, issued, nsent,
                   mpctx, heap, lk>>

\* The engine logs a message at a level client c has asked for with
\* mpv_request_log_messages: the client's log buffer gets an entry.  Nothing
\* signals the client (mpv_wait_event polls the buffer).
LogMessage(c) ==
    /\ handle[c].messages_buf # NULL
    /\ handle[c].messages < MaxMessages
    /\ handle' = [handle EXCEPT ![c].messages = @ + 1]
    /\ UNCHANGED <<clients, waiter, thr, ret, dispatch, fatal, issued, nsent,
                   mpctx, heap, lk>>

\* ---------------------------------------------------------------- shutdown

\* The engine tears down: it sets shutdown on every client of the table and
\* signals its condition variable (the code that does so is not part of
\* player/client.c).
shutdown_clients ==
    /\ \E c \in Registered : ~handle[c].shutdown
    /\ handle' = [c \in Handles |->
                    IF c \in Registered
                    THEN wakeup_client([handle[c] EXCEPT !.shutdown = TRUE])
                    ELSE handle[c]]
    /\ UNCHANGED <<clients, waiter, thr, ret, dispatch, fatal, issued, nsent,
                   mpctx, heap, lk>>

\* ----------------------------------------------------------------- suspend

\* mpv_resume as a flag: the first resume lets the playback thread go on.
mpv_resume_flag(c) ==
    /\ c \in Registered
    /\ IF mpctx.suspend_count = 0
       THEN /\ fatal' = "resume without suspend"
            /\ mpctx' = [mpctx EXCEPT !.resumes = @ + 1]
       ELSE /\ mpctx' = [mpctx EXCEPT !.suspend_count = 0,
                                      !.resumes = @ + 1]
            /\ UNCHANGED fatal
    /\ UNCHANGED <<clients, handle, waiter, thr, ret, dispatch, issued, nsent,
                   heap, lk>>

\* mpv_suspend on handle c: mp_dispatch_suspend on the engine's dispatch
\* queue, which counts the request.
mpv_suspend(c) ==
    /\ c \in Registered
    /\ mpctx.suspends < MaxSuspend
    /\ mpctx' = [mpctx EXCEPT !.suspend_count = @ + 1, !.suspends = @ + 1]
    /\ UNCHANGED <<clients, handle, waiter, thr, ret, dispatch, fatal, issued,
                   nsent, heap, lk>>

\* mpv_resume on handle c: mp_dispatch_resume, which takes one request back
\* and aborts when there is none.
mpv_resume(c) ==
    /\ c \in Registered
    /\ IF mpctx.suspend_count = 0
       THEN /\ fatal' = "resume without suspend"
            /\ mpctx' = [mpctx EXCEPT !.resumes = @ + 1]
       ELSE /\ mpctx' = [mpctx EXCEPT !.suspend_count = @ - 1,
                                      !.resumes = @ + 1]
            /\ UNCHANGED fatal
    /\ UNCHANGED <<clients, handle, waiter, thr, ret, dispatch, issued, nsent,
                   heap, lk>>

\* The playback thread shows a frame: it does so only while no suspend
\* request is held.
PlayFrame ==
    /\ mpctx.playback
    /\ mpctx.suspend_count = 0
    /\ mpctx' = [mpctx EXCEPT !.frame = 1 - @]
    /\ UNCHANGED <<clients, handle, waiter, thr, ret, dispatch, fatal, issued,
                   nsent, heap, lk>>

\* ------------------------------------------------------------------- Next

\* The events the playback thread broadcasts, the events clients switch on
\* and off, and the results of property accesses, in this specification.
BroadcastEvents == {MPV_EVENT_TICK}
RequestedEvents == {MPV_EVENT_TICK, 16}
SetFormats == {MPV_FORMAT_STRING, MPV_FORMAT_OSD_STRING}
GetFormats == {MPV_FORMAT_STRING}
SpecPropertyResults == {"M_PROPERTY_OK", "M_PROPERTY_UNAVAILABLE"}
Timeouts == {0, 1}
SpecThreads == {1}

Next ==
    /\ fatal = "none"
    /\ \/ \E t \in SpecThreads, c \in Registered : mpv_command_async(t, c)
       \/ \E t \in SpecThreads, c \in Registered, f \in SetFormats :
              mpv_set_property_async(t, c, f)
       \/ \E t \in SpecThreads, c \in Registered, f \in GetFormats :
              mpv_get_property_async(t, c, f)
       \/ \E t \in SpecThreads : run_async_enqueue(t)
       \/ \E err \in SpecPropertyResults : DispatchProcess(err)
       \/ \E e \in BroadcastEvents : mp_client_broadcast_event(e, NULL)
       \/ \E c \in Registered, e \in RequestedEvents, on \in {0, 1, 2} :
              mpv_request_event(c, e, on)
       \/ \E c \in Registered : mpv_wakeup(c)
       \/ \E c \in Registered, timeout \in Timeouts : mpv_wait_event(c, timeout)
       \/ \E c \in Registered : DeadlinePasses(c)
       \/ \E c \in Registered : wait_event_wakes(c)

Spec == Init /\ [][Next]_vars

\* The clients also switch the OK replies off; commands only.
MaskEvents == {MPV_EVENT_TICK, MPV_EVENT_OK}

NextMask ==
    /\ fatal = "none"
    /\ \/ \E t \in SpecThreads, c \in Registered : mpv_command_async(t, c)
       \/ \E t \in SpecThreads : run_async_enqueue(t)
       \/ \E err \in {"M_PROPERTY_OK"} : DispatchProcess(err)
       \/ \E e \in BroadcastEvents : mp_client_broadcast_event(e, NULL)
       \/ \E c \in Registered, e \in MaskEvents, on \in {0, 1} :
              mpv_request_event(c, e, on)
       \/ \E c \in Registered, timeout \in Timeouts : mpv_wait_event(c, timeout)
       \/ \E c \in Registered : DeadlinePasses(c)
       \/ \E c \in Registered : wait_event_wakes(c)

SpecMask == Init /\ [][NextMask]_vars

\* Two clients and two threads that submit commands on both; the clients do
\* not read their events.
InitAlloc == InitWith(<<1, 2>>)

NextAlloc ==
    /\ fatal = "none"
    /\ \/ \E t \in Threads, c \in Registered : mpv_command_async(t, c)
       \/ \E t \in Threads : run_async_enqueue(t)
       \/ \E err \in {"M_PROPERTY_OK"} : DispatchProcess(err)

SpecAlloc == InitAlloc /\ [][NextAlloc]_vars

\* One client and two threads that submit commands on it; the client does
\* not read its events.
SpecOrder == Init /\ [][NextAlloc]_vars

\* One client whose thread keeps calling mpv_wait_event and resumes when
\* its wait ends, a submitter that finishes the calls it starts, and a
\* playback thread that keeps draining the dispatch queue.
NextFair ==
    /\ fatal = "none"
    /\ \/ \E t \in SpecThreads, c \in Registered : mpv_command_async(t, c)
       \/ \E t \in SpecThreads : run_async_enqueue(t)
       \/ \E err \in {"M_PROPERTY_OK"} : DispatchProcess(err)
       \/ \E c \in Registered, timeout \in Timeouts : mpv_wait_event(c, timeout)
       \/ \E c \in Registered : DeadlinePasses(c)
       \/ \E c \in Registered : wait_event_wakes(c)

\* The steps a thread takes while the process lives.
Live(A) == fatal = "none" /\ A

FairSpec ==
    /\ Init
    /\ [][NextFair]_vars
    /\ WF_vars(Live(\E err \in {"M_PROPERTY_OK"} : DispatchProcess(err)))
    /\ \A t \in SpecThreads : WF_vars(Live(run_async_enqueue(t)))
    /\ \A c \in Handles :
          /\ WF_vars(Live(\E timeout \in Timeouts :
                             mpv_wait_event(c, timeout)))
          /\ WF_vars(Live(wait_event_wakes(c)))

\* One client that submits commands and waits for events while the engine
\* tears down.
NextShutdown ==
    /\ fatal = "none"
    /\ \/ \E t \in SpecThreads, c \in Registered : mpv_command_async(t, c)
       \/ \E t \in SpecThreads : run_async_enqueue(t)
       \/ \E err \in {"M_PROPERTY_OK"} : DispatchProcess(err)
       \/ \E c \in Registered : mpv_wakeup(c)
       \/ \E c \in Registered, timeout \in Timeouts : mpv_wait_event(c, timeout)
       \/ \E c \in Registered : DeadlinePasses(c)
       \/ \E c \in Registered : wait_event_wakes(c)
       \/ shutdown_clients

SpecShutdown == Init /\ [][NextShutdown]_vars

\* Two clients, and a playback thread that broadcasts an event with and
\* without a payload; the clients switch the event off and on, read their
\* events and destroy their handles.
PayloadEvents == {MPV_EVENT_SCRIPT_INPUT_DISPATCH}

NextPayload ==
    /\ fatal = "none"
    /\ \/ \E e \in PayloadEvents, data \in Payloads \cup {NULL} :
              mp_client_broadcast_event(e, data)
       \/ \E c \in Registered, e \in PayloadEvents, on \in {0, 1} :
              mpv_request_event(c, e, on)
       \/ \E c \in Registered : mpv_wait_event(c, 0)
       \/ \E c \in Registered : mpv_destroy(c)

SpecPayload == InitAlloc /\ [][NextPayload]_vars

\* Clients are created under the names "A" and "A2" and destroyed, starting
\* from an empty table.
BaseNames == {<<"A">>, <<"A", "2">>}

NextRegistry ==
    /\ fatal = "none"
    /\ \/ \E name \in BaseNames : NewClient(name)
       \/ \E c \in Registered : mpv_destroy(c)

SpecRegistry == InitWith(<<>>) /\ [][NextRegistry]_vars

\* Two threads that make every call that takes a lock, one lock operation
\* at a time, on a table of two clients.  Thread t broadcasts the event
\* BroadcastOf[t], once.
BroadcastOf == <<MPV_EVENT_PAUSE, MPV_EVENT_UNPAUSE>>

NextLock ==
    /\ fatal = "none"
    /\ \/ \E t \in Threads :
              /\ \A i \in DOMAIN lk.order : lk.order[i] # BroadcastOf[t]
              /\ LockStart(t, "broadcast", 0, BroadcastOf[t], 0)
       \/ \E t \in Threads :
              LockStart(t, "send_to", 0, MPV_EVENT_SCRIPT_INPUT_DISPATCH,
                        Main)
       \/ \E t \in Threads :
              /\ \/ Handles \ Registered # {}
                 \/ unique_name(RegisteredNames, Main) = NoName
              /\ LockStart(t, "new_client", 0, 0, Main)
       \/ \E t \in Threads, c \in Registered :
              /\ \A u \in Threads : lk.pc[u].ctx # c
              /\ handle[c].reserved_events = 0
              /\ LockStart(t, "destroy", c, 0, 0)
       \/ \E t \in Threads, c \in Registered :
              /\ handle[c].alloc_reply_id < MaxReplyId
              /\ LockStart(t, "reserve_reply", c, 0, 0)
       \/ \E t \in Threads, c \in Registered :
              /\ handle[c].reserved_events > 0
              /\ LockStart(t, "send_reply", c, 0, 0)
       \/ \E t \in Threads, c \in Registered, on \in {0, 1} :
              LockStart(t, "request_event", c, MPV_EVENT_PAUSE, on)
       \/ \E t \in Threads, c \in Registered : LockStart(t, "wakeup", c, 0, 0)
       \/ \E t \in Threads, c \in Registered :
              LockStart(t, "wait_event", c, 0, 0)
       \/ \E t \in Threads : LockAcquire(t)
       \/ \E t \in Threads : LockBody(t)

LockSpec == InitAlloc /\ [][NextLock]_vars

\* One client whose threads suspend and resume the engine and submit
\* commands, and the playback thread, which shows frames and drains the
\* dispatch queue.
NextSuspend ==
    /\ fatal = "none"
    /\ \/ \E c \in Registered : mpv_suspend(c)
       \/ \E c \in Registered : mpv_resume(c)
       \/ PlayFrame
       \/ \E t \in Threads, c \in Registered : mpv_command_async(t, c)
       \/ \E t \in Threads : run_async_enqueue(t)
       \/ \E err \in {"M_PROPERTY_OK"} : DispatchProcess(err)

SpecSuspend == Init /\ [][NextSuspend]_vars

\* mpv_create, then a thread that makes every kind of request on the
\* handle, before and after it calls mpv_initialize.
Cmds == {NULL, 1}
InitOutcomes == {"mp_initialize fails", "pthread_create fails", "ok"}

NextCreated ==
    /\ fatal = "none"
    /\ \/ \E t \in SpecThreads, c \in Registered, cmd \in Cmds :
              mpv_command(t, c, cmd)
       \/ \E t \in SpecThreads, c \in Registered, cmd \in Cmds :
              mpv_command_string(t, c, cmd)
       \/ \E t \in SpecThreads, c \in Registered : mpv_command_async(t, c)
       \/ \E t \in SpecThreads, c \in Registered, f \in SetFormats :
              mpv_set_property(t, c, f)
       \/ \E t \in SpecThreads, c \in Registered, f \in SetFormats :
              mpv_set_property_async(t, c, f)
       \/ \E t \in SpecThreads, c \in Registered, f \in SetFormats :
              mpv_get_property(t, c, f)
       \/ \E t \in SpecThreads, c \in Registered, f \in SetFormats :
              mpv_get_property_async(t, c, f)
       \/ \E t \in SpecThreads, c \in Registered, o \in InitOutcomes :
              mpv_initialize(t, c, o)
       \/ \E t \in SpecThreads : run_async_enqueue(t)
       \/ \E err \in SpecPropertyResults : DispatchProcess(err)

SpecCreated == InitCreated /\ [][NextCreated]_vars

\* One client and one thread that submits property requests in every
\* format, supported or not, and reads the events.
Formats == {MPV_FORMAT_NONE, MPV_FORMAT_STRING, MPV_FORMAT_OSD_STRING}

NextFormat ==
    /\ fatal = "none"
    /\ \/ \E t \in SpecThreads, c \in Registered, f \in Formats :
              mpv_set_property_async(t, c, f)
       \/ \E t \in SpecThreads, c \in Registered, f \in Formats :
              mpv_get_property_async(t, c, f)
       \/ \E t \in SpecThreads : run_async_enqueue(t)
       \/ \E err \in SpecPropertyResults : DispatchProcess(err)
       \/ \E c \in Registered : mpv_wait_event(c, 0)

SpecFormat == Init /\ [][NextFormat]_vars

\* One client whose thread submits commands and destroys the handle
\* whenever it is outside a call, and the playback thread, which takes the
\* lock of the handle a request replies to before it writes the reply.
\* reserve_reply runs under the handle lock.
NextTeardown ==
    /\ fatal = "none"
    /\ \/ \E t \in SpecThreads, c \in Registered :
              /\ HandleFree(lk, c)
              /\ mpv_command_async(t, c)
       \/ \E t \in SpecThreads : run_async_enqueue(t)
       \/ \E t \in SpecThreads, c \in Registered :
              /\ thr[t].pc = "idle"
              /\ mpv_destroy(c)
       \/ DispatchLock
       \/ \E err \in {"M_PROPERTY_OK"} : DispatchLocked(err)

SpecTeardown == InitAlloc /\ [][NextTeardown]_vars

\* Two clients that wait for events, the first with commands in flight,
\* the second switching an event off and on, and a playback thread that
\* broadcasts the event and answers the commands.
FanoutEvents == {MPV_EVENT_PAUSE}

NextFanout ==
    /\ fatal = "none"
    /\ \/ \E t \in SpecThreads : mpv_command_async(t, clients[1])
       \/ \E t \in SpecThreads : run_async_enqueue(t)
       \/ \E err \in {"M_PROPERTY_OK"} : DispatchProcess(err)
       \/ \E e \in FanoutEvents : mp_client_broadcast_event(e, NULL)
       \/ \E e \in FanoutEvents, on \in {0, 1} :
              mpv_request_event(clients[2], e, on)
       \/ \E c \in Registered : mpv_wait_event(c, 1)
       \/ \E c \in Registered : wait_event_wakes(c)

SpecFanout == InitAlloc /\ [][NextFanout]_vars

\* One client that waits for events with negative, zero and positive
\* timeouts and calls mpv_wakeup, and an engine that broadcasts an event,
\* logs messages and shuts down.
WaitTimeouts == {-1, 0, 1}
WaitEvents == {MPV_EVENT_PAUSE}

NextWait ==
    /\ fatal = "none"
    /\ \/ \E e \in WaitEvents : mp_client_broadcast_event(e, NULL)
       \/ \E t \in SpecThreads, c \in Registered :
              mpv_request_log_messages(t, c, "info")
       \/ \E c \in Registered : LogMessage(c)
       \/ shutdown_clients
       \/ \E c \in Registered : mpv_wakeup(c)
       \/ \E c \in Registered, timeout \in WaitTimeouts :
              mpv_wait_event(c, timeout)
       \/ \E c \in Registered : DeadlinePasses(c)
       \/ \E c \in Registered : wait_event_wakes(c)

SpecWait == Init /\ [][NextWait]_vars

\* A client that sets and clears its wakeup callback, sends commands and
\* blocks in mpv_wait_event, and a playback thread that broadcasts an event
\* and answers the commands, each write to the ring inside the handle lock.
\* mpv_wait_event and mpv_set_wakeup_callback take the handle lock for the
\* step they make, and the client's one thread is in one call at a time.
WakeEvents == {MPV_EVENT_PAUSE}

\* The number of broadcasts of a behaviour of SpecWake.
MaxBroadcasts == 2

NextWake ==
    /\ fatal = "none"
    /\ \/ \E e \in WakeEvents :
              /\ lk.calls < MaxBroadcasts
              /\ LockStart(PlaybackThread, "broadcast", 0, e, 0)
       \/ LockAcquire(PlaybackThread)
       \/ /\ lk.pc[PlaybackThread].op = "broadcast"
          /\ LockBody(PlaybackThread)
       \/ DispatchLock
       \/ \E err \in {"M_PROPERTY_OK"} :
              /\ lk.pc[PlaybackThread].op = "send_reply"
              /\ DispatchLocked(err)
       \/ \E t \in SpecThreads, c \in Registered :
              /\ HandleFree(lk, c)
              /\ handle[c].wakeup = "idle"
              /\ mpv_command_async(t, c)
       \/ \E t \in SpecThreads : run_async_enqueue(t)
       \/ \E t \in SpecThreads, c \in Registered, cb \in BOOLEAN :
              /\ HandleFree(lk, c)
              /\ thr[t].pc = "idle" /\ handle[c].wakeup = "idle"
              /\ mpv_set_wakeup_callback(c, cb)
       \/ \E t \in SpecThreads, c \in Registered, timeout \in Timeouts :
              /\ HandleFree(lk, c)
              /\ thr[t].pc = "idle"
              /\ mpv_wait_event(c, timeout)
       \/ \E c \in Registered : DeadlinePasses(c)
       \/ \E c \in Registered :
              /\ HandleFree(lk, c)
              /\ wait_event_wakes(c)

SpecWake == Init /\ [][NextWake]_vars

\* The playback thread finishes the call it is in, and a thread whose
\* pthread_cond_timedwait was signalled gets the mutex again.
FairWake ==
    /\ SpecWake
    /\ WF_vars(Live(LockAcquire(PlaybackThread)))
    /\ WF_vars(Live(lk.pc[PlaybackThread].op = "broadcast"
                    /\ LockBody(PlaybackThread)))
    /\ WF_vars(Live(\E err \in {"M_PROPERTY_OK"} :
                       /\ lk.pc[PlaybackThread].op = "send_reply"
                       /\ DispatchLocked(err)))
    /\ \A c \in Handles :
          SF_vars(Live(HandleFree(lk, c) /\ wait_event_wakes(c)))

\* One client whose thread submits commands and property requests and reads
\* the events, and a playback thread that answers the requests with every
\* result mp_property_do can give.
ReplyFormats == {MPV_FORMAT_NONE, MPV_FORMAT_STRING}

NextReply ==
    /\ fatal = "none"
    /\ \/ \E t \in SpecThreads, c \in Registered : mpv_command_async(t, c)
       \/ \E t \in SpecThreads, c \in Registered :
              mpv_set_property_async(t, c, MPV_FORMAT_STRING)
       \/ \E t \in SpecThreads, c \in Registered, f \in ReplyFormats :
              mpv_get_property_async(t, c, f)
       \/ \E t \in SpecThreads : run_async_enqueue(t)
       \/ \E err \in PropertyResults : DispatchProcess(err)
       \/ \E c \in Registered : mpv_wait_event(c, 0)

SpecReply == Init /\ [][NextReply]_vars

\* One client whose thread switches events on and off, with kinds and
\* enable values inside and outside their ranges, sends commands and reads
\* the events, and a playback thread that broadcasts and answers.
RequestKinds == {MPV_EVENT_NONE - 1, MPV_EVENT_NONE,
                 MPV_EVENT_SCRIPT_INPUT_DISPATCH,
                 MPV_EVENT_SCRIPT_INPUT_DISPATCH + 1}
RequestEnables == {-1, 0, 1, 2}
RequestBroadcasts == {MPV_EVENT_SCRIPT_INPUT_DISPATCH}

NextRequest ==
    /\ fatal = "none"
    /\ \/ \E t \in SpecThreads, c \in Registered, e \in RequestKinds,
             on \in RequestEnables :
              /\ thr[t].pc = "idle"
              /\ mpv_request_event_by(t, c, e, on)
       \/ \E t \in SpecThreads, c \in Registered : mpv_command_async(t, c)
       \/ \E t \in SpecThreads : run_async_enqueue(t)
       \/ \E err \in {"M_PROPERTY_OK"} : DispatchProcess(err)
       \/ \E e \in RequestBroadcasts : mp_client_broadcast_event(e, NULL)
       \/ \E c \in Registered : mpv_wait_event(c, 0)

SpecRequest == Init /\ [][NextRequest]_vars

\* One client whose thread asks for log messages at several levels, with
\* names of the list and outside it, and reads the events, and an engine
\* that logs and broadcasts an event.
LevelNames == {"no", "info", "v", "verbose"}
LogEvents == {MPV_EVENT_PAUSE}

\* The number of log buffers a behaviour of SpecLog makes for a handle.
MaxBuffers == 2

NextLog ==
    /\ fatal = "none"
    /\ \/ \E t \in SpecThreads, c \in Registered, l \in LevelNames :
              /\ request_log_messages(handle[c], l).ctx.nbuffers
                     <= MaxBuffers
              /\ mpv_request_log_messages(t, c, l)
       \/ \E c \in Registered : LogMessage(c)
       \/ \E e \in LogEvents : mp_client_broadcast_event(e, NULL)
       \/ \E c \in Registered : mpv_wait_event(c, 0)

SpecLog == Init /\ [][NextLog]_vars

\* One client that switches an event off and on, reserves replies, reads its
\* events and destroys its handle, and a playback thread that sends the
\* event, with and without a payload, to the client's name and to a name no
\* client has.
TargetNames == {Main, <<"x">>}
TargetEvents == {MPV_EVENT_SCRIPT_INPUT_DISPATCH}

NextSendTo ==
    /\ fatal = "none"
    /\ \/ \E name \in TargetNames, e \in TargetEvents,
             data \in Payloads \cup {NULL} :
              mp_client_send_event(name, e, data)
       \/ \E c \in Registered, e \in TargetEvents, on \in {0, 1} :
              mpv_request_event(c, e, on)
       \/ \E t \in SpecThreads, c \in Registered : mpv_command_async(t, c)
       \/ \E t \in SpecThreads : run_async_enqueue(t)
       \/ \E c \in Registered : mpv_wait_event(c, 0)
       \/ \E t \in SpecThreads, c \in Registered :
              /\ thr[t].pc = "idle"
              /\ mpv_destroy(c)

SpecSendTo == Init /\ [][NextSendTo]_vars

\* Clients that never call mpv_request_event: a second client is created
\* during the run, the first has commands in flight, both read their
\* events, and the playback thread broadcasts events, MPV_EVENT_TICK among
\* them.
DefaultEvents ==
    {MPV_EVENT_NONE, MPV_EVENT_TICK, MPV_EVENT_SCRIPT_INPUT_DISPATCH}

NextDefault ==
    /\ fatal = "none"
    /\ \/ /\ Len(clients) < 2
          /\ NewClient(Main)
       \/ \E e \in DefaultEvents : mp_client_broadcast_event(e, NULL)
       \/ \E t \in SpecThreads : mpv_command_async(t, clients[1])
       \/ \E t \in SpecThreads : run_async_enqueue(t)
       \/ \E c \in Registered : mpv_wait_event(c, 0)

SpecDefault == Init /\ [][NextDefault]_vars

\* ----------------------------------------------------------------- claims

\* The requests of handle c with reply ID r that have reserved their reply
\* and whose callback has not run: held by a thread inside run_async, or on
\* the dispatch queue.
InFlight(c, r) ==
    Cardinality({t \in Threads : /\ thr[t].pc = "enqueue"
                                 /\ thr[t].req.reply_ctx = c
                                 /\ thr[t].req.reply_id = r})
    + Cardinality({i \in DOMAIN dispatch : /\ dispatch[i].reply_ctx = c
                                           /\ dispatch[i].reply_id = r})

Outstanding(c) ==
    Cardinality({t \in Threads : /\ thr[t].pc = "enqueue"
                                 /\ thr[t].req.reply_ctx = c})
    + Cardinality({i \in DOMAIN dispatch : dispatch[i].reply_ctx = c})

\* C1: every send_reply made for a reserved reply finds room in the ring
\* for its record, so the abort() behind the short write in send_reply is
\* never reached.
C1_ReplyFindsRoom == fatal # "abort in send_reply"

\* C2: every request that got a reply ID has its reply returned by
\* mpv_wait_event eventually, when the playback thread keeps draining the
\* dispatch queue and the client keeps calling mpv_wait_event.
C2_ReplyDelivered ==
    \A c \in Handles : \A r \in 1 .. MaxReplyId :
        (handle[c].alloc_reply_id >= r) ~> (handle[c].cur_event.reply_id = r)

\* C3: the event mpv_wait_event returned carries in in_reply_to the reply ID
\* of the request it answers, and 0 when it answers none.
C3_InReplyTo ==
    \A c \in Handles :
        handle[c].cur_event.in_reply_to = handle[c].cur_event.reply_id

\* C4: reserved_events is the number of the client's requests that have
\* reserved a reply which has not been sent, and lies in 0 .. max_events.
C4_ReservedCount ==
    \A c \in Handles :
        /\ handle[c].reserved_events = Outstanding(c)
        /\ 0 <= handle[c].reserved_events
        /\ handle[c].reserved_events <= handle[c].max_events

C4_Witness ==
    \E c \in Registered :
        /\ handle[c].reserved_events = handle[c].max_events
        /\ dispatch # <<>>
        /\ \E t \in Threads : thr[t].pc = "enqueue"
        /\ \E r \in 1 .. MaxReplyId : nsent[c][r] = 1

\* C5: a reply ID that was handed out is either still in flight or has been
\* answered by exactly one send_reply, a reply ID that was not handed out
\* has been answered by none, and the assert of send_reply never fails.
C5_ExactlyOneReply ==
    /\ fatal # "assert in send_reply"
    /\ \A c \in Handles : \A r \in DOMAIN nsent[c] :
          nsent[c][r] + InFlight(c, r) =
              IF r <= handle[c].alloc_reply_id THEN 1 ELSE 0

C5_Witness ==
    \E c \in Registered :
        /\ nsent[c][1] = 1 /\ nsent[c][2] = 1
        /\ handle[c].cur_event.event_id = MPV_EVENT_PROPERTY
        /\ \E i \in DOMAIN handle[c].events :
              handle[c].events[i].event_id = MPV_EVENT_ERROR

\* C6: the reply IDs a client hands out are 1, 2, 3, ... in this order,
\* whatever the other client hands out, and two threads inside run_async on
\* one handle hold different IDs.
C6_ReplyIds ==
    /\ \A c \in Handles :
          /\ Len(issued[c]) = handle[c].alloc_reply_id
          /\ \A i \in DOMAIN issued[c] : issued[c][i] = i
    /\ \A t \in Threads :
          /\ thr[t].pc = "enqueue" =>
                thr[t].req.reply_id \in
                    1 .. handle[thr[t].req.reply_ctx].alloc_reply_id
          /\ ret[t].ctx # NULL /\ ret[t].r >= 0 =>
                ret[t].r \in 1 .. handle[ret[t].ctx].alloc_reply_id
    /\ \A t1, t2 \in Threads :
          /\ t1 # t2
          /\ thr[t1].pc = "enqueue" /\ thr[t2].pc = "enqueue"
          /\ thr[t1].req.reply_ctx = thr[t2].req.reply_ctx
          => thr[t1].req.reply_id # thr[t2].req.reply_id

C6_Witness ==
    /\ thr[1].pc = "enqueue" /\ thr[2].pc = "enqueue"
    /\ thr[1].req.reply_ctx = 1 /\ thr[2].req.reply_ctx = 1
    /\ thr[1].req.reply_id = 3 /\ thr[2].req.reply_id = 2
    /\ issued[2] = <<1>>

C8_MaskGate ==
    [][\A c \in Handles :
          Len(handle'[c].events) < Len(handle[c].events)
          => Head(handle[c].events).event_id \in handle[c].event_mask]_vars

\* C8 as amended: send_event writes an event to a ring only if the mask bit
\* of its kind is set at that moment.
C8_MaskGateAtSend ==
    [][\A c \in Handles :
          /\ Len(handle'[c].events) > Len(handle[c].events)
          /\ handle'[c].events[Len(handle'[c].events)].reply_id = 0
          => handle'[c].events[Len(handle'[c].events)].event_id
                 \in handle[c].event_mask]_vars

C8_Witness ==
    \E c \in Registered :
        /\ handle[c].cur_event.event_id = MPV_EVENT_TICK
        /\ handle[c].events # <<>>
        /\ handle[c].events[1].event_id = MPV_EVENT_TICK
        /\ MPV_EVENT_TICK \notin handle[c].event_mask

\* C9: a mpv_wait_event call with a positive timeout that has found nothing
\* to return after its deadline has passed is over: it does not wait again.
C9_TimeoutReturns ==
    \A c \in Handles : ~(handle[c].wakeup # "idle" /\ waiter[c].timedout)

\* C10: a mpv_wakeup call made while the thread is blocked in
\* mpv_wait_event leaves that thread signalled with queued_wakeup set, and
\* when it runs the call returns; after a mpv_wakeup call made outside
\* mpv_wait_event the next call does not block.
C10_WakeupNotLost ==
    /\ [](\A c \in Handles :
            waiter[c].woken /\ handle[c].wakeup # "idle"
            => handle[c].wakeup = "signaled" /\ handle[c].queued_wakeup)
    /\ [][\A c \in Handles :
            waiter[c].woken => handle'[c].wakeup # "waiting"]_vars

C10_Witness ==
    \E c \in Registered :
        /\ waiter[c].woken
        /\ handle[c].wakeup = "signaled"
        /\ waiter[c].expired
        /\ handle[c].events = <<>>

\* C11: once shutdown is set on a client it stays set, no thread stays
\* blocked in mpv_wait_event on it, and every mpv_wait_event call on it
\* returns at once, whatever its timeout: with the oldest event of the ring
\* if the ring holds one, and with a SHUTDOWN event if the ring is empty.
C11_ShutdownReturns ==
    /\ [](\A c \in Registered :
            handle[c].shutdown => handle[c].wakeup # "waiting")
    /\ [][\A c \in Registered :
            /\ handle[c].shutdown => handle'[c].shutdown
            /\ \A timeout \in Timeouts :
                  handle[c].shutdown /\ mpv_wait_event(c, timeout)
                  => /\ handle'[c].wakeup = "idle"
                     /\ handle[c].events = <<>> =>
                           handle'[c].cur_event.event_id = MPV_EVENT_SHUTDOWN
                     /\ handle[c].events # <<>> =>
                           /\ handle'[c].cur_event = Head(handle[c].events)
                           /\ handle'[c].events = Tail(handle[c].events)]_vars

C11_Witness ==
    \E c \in Registered :
        /\ handle[c].shutdown
        /\ handle[c].cur_event.event_id = MPV_EVENT_SHUTDOWN
        /\ handle[c].events # <<>>
        /\ nsent[c][1] = 1
        /\ handle[c].wakeup = "idle"

\* C12: a payload passed to mp_client_broadcast_event is freed exactly
\* once: no payload is freed a second time, and no freed payload is used.
C12_PayloadFreedOnce ==
    /\ \A p \in Payloads : heap[p].nfree <= 1
    /\ fatal # "use after free in mpv_wait_event"

\* C13: no two clients of the table have the same name, and no handle is
\* in the table twice.
C13_UniqueNames ==
    /\ \A i, j \in DOMAIN clients :
          i # j => /\ clients[i] # clients[j]
                   /\ handle[clients[i]].name # handle[clients[j]].name
    /\ \A c \in Registered : handle[c].name # NoName

C13_Witness ==
    /\ Len(clients) = 3
    /\ handle[clients[1]].name = <<"A", "2">>
    /\ handle[clients[2]].name = <<"A">>
    /\ handle[clients[3]].name = <<"A", "2", "2">>

\* C14: mp_new_client(clients, name) registers the new client under name
\* when no client of the table has that name, else under name followed by
\* the smallest n of 2 .. MaxSuffix for which no client has that string as
\* its name; when there is no such n it registers nothing.
C14_SmallestSuffix ==
    [][\A name \in BaseNames :
          NewClient(name) =>
            LET Taken(x) == \E c \in Registered : handle[c].name = x
                new == handle'[clients'[Len(clients')]].name
                Fits(n) == ~Taken(name \o Decimal(n))
            IN IF ~Taken(name)
               THEN Len(clients') = Len(clients) + 1 /\ new = name
               ELSE IF \E n \in 2 .. MaxSuffix : Fits(n)
               THEN /\ Len(clients') = Len(clients) + 1
                    /\ \E n \in 2 .. MaxSuffix :
                          /\ Fits(n)
                          /\ \A m \in 2 .. n - 1 : ~Fits(m)
                          /\ new = name \o Decimal(n)
               ELSE UNCHANGED <<clients, handle>>]_vars

C14_Witness ==
    /\ Len(clients) = 3
    /\ handle[clients[1]].name = <<"A">>
    /\ handle[clients[2]].name = <<"A", "3">>
    /\ handle[clients[3]].name = <<"A", "2">>

\* The handle locks thread t holds.
LocksHeld(t) == {c \in Handles : lk.lock[c] = t}

\* Thread t waits for a handle lock that another thread holds.
LockBlocked(t) ==
    /\ LockWanted(t) = "handle"
    /\ LockTarget(t) # 0
    /\ lk.lock[LockTarget(t)] \notin {0, t}

\* C15: a thread takes the registry lock only while it holds no handle
\* lock, it holds at most one handle lock and takes one only while it
\* holds none, and the calls never wait for each other in a circle: the
\* owner of a lock a thread waits for is running its locked region, and a
\* thread inside a call can always take a step or is waiting for such an
\* owner.
C15_LockOrder ==
    /\ [](\A t \in Threads :
            /\ Cardinality(LocksHeld(t)) <= 1
            /\ LockWanted(t) # "none" => LocksHeld(t) = {}
            /\ LockBlocked(t) =>
                  lk.pc[lk.lock[LockTarget(t)]].at = "locked"
            /\ lk.pc[t].at = "locked" => ENABLED LockBody(t))
    /\ [][\A t \in Threads :
            lk'.registry = t /\ lk.registry # t => LocksHeld(t) = {}]_vars

C15_Witness ==
    \E t, u \in Threads :
        /\ t # u
        /\ lk.registry = t
        /\ lk.pc[t].op = "send_to"
        /\ LockBlocked(t)
        /\ lk.lock[LockTarget(t)] = u
        /\ lk.pc[u].op = "wait_event"

\* a is b with some of its elements left out.
RECURSIVE IsSubseq(_, _)
IsSubseq(a, b) ==
    IF a = <<>> THEN TRUE
    ELSE IF b = <<>> THEN FALSE
    ELSE IF Head(a) = Head(b) THEN IsSubseq(Tail(a), Tail(b))
    ELSE IsSubseq(a, Tail(b))

\* The broadcast events in the ring of client c, oldest first.
BroadcastsIn(c) ==
    LET evs == SelectSeq(handle[c].events,
                   LAMBDA e : /\ e.reply_id = 0
                              /\ \E t \in Threads :
                                    e.event_id = BroadcastOf[t])
    IN [i \in DOMAIN evs |-> evs[i].event_id]

\* C17: the broadcast events in the ring of every client are in the order
\* in which their broadcasts took the registry lock, with the events the
\* client did not accept left out; so no two clients hold two broadcasts
\* in opposite orders.
C17_BroadcastOrder ==
    /\ \A c \in Registered : IsSubseq(BroadcastsIn(c), lk.order)
    /\ \A c1, c2 \in Registered :
          \A i, j \in DOMAIN BroadcastsIn(c1) :
             \A k, l \in DOMAIN BroadcastsIn(c2) :
                /\ i < j /\ k < l
                /\ BroadcastsIn(c1)[i] # BroadcastsIn(c1)[j]
                => ~(/\ BroadcastsIn(c1)[i] = BroadcastsIn(c2)[l]
                     /\ BroadcastsIn(c1)[j] = BroadcastsIn(c2)[k])

C17_Witness ==
    /\ lk.order = <<MPV_EVENT_UNPAUSE, MPV_EVENT_PAUSE>>
    /\ Len(clients) = 2
    /\ BroadcastsIn(clients[1]) = <<MPV_EVENT_UNPAUSE>>
    /\ MPV_EVENT_PAUSE \notin handle[clients[1]].event_mask
    /\ BroadcastsIn(clients[2]) = <<MPV_EVENT_UNPAUSE, MPV_EVENT_PAUSE>>
    /\ \A t \in Threads : lk.pc[t].at = "idle"

\* C16: the ring of a client changes only by a record written behind its
\* newest record or by mpv_wait_event taking its oldest record, which is
\* the event that call returns; so the events are returned in the order in
\* which they were written, each once.
C16_RingOrder ==
    [][\A c \in Registered :
          handle'[c].events # handle[c].events =>
             \/ /\ Len(handle'[c].events) = Len(handle[c].events) + 1
                /\ SubSeq(handle'[c].events, 1, Len(handle[c].events)) =
                       handle[c].events
             \/ /\ handle[c].events # <<>>
                /\ handle'[c].events = Tail(handle[c].events)
                /\ handle'[c].cur_event = Head(handle[c].events)]_vars

C16_Witness ==
    \E c \in Registered :
        /\ handle[c].cur_event.reply_id = 1
        /\ Len(handle[c].events) = 2
        /\ handle[c].events[1].event_id = MPV_EVENT_TICK
        /\ handle[c].events[2].reply_id = 2

\* C18: the requests one thread has submitted on one handle wait on the
\* dispatch queue in the order of their reply IDs, the playback thread
\* answers the oldest request of the queue, and so the reply to the earlier
\* of two requests of one thread on one handle is written before the reply
\* to the later one.
C18_SubmissionOrder ==
    /\ [](\A i, j \in DOMAIN dispatch :
            /\ i < j
            /\ dispatch[i].thread = dispatch[j].thread
            /\ dispatch[i].reply_ctx = dispatch[j].reply_ctx
            => dispatch[i].reply_id < dispatch[j].reply_id)
    /\ [](\A t \in Threads : \A i \in DOMAIN dispatch :
            /\ thr[t].pc = "enqueue"
            /\ dispatch[i].thread = t
            /\ dispatch[i].reply_ctx = thr[t].req.reply_ctx
            => dispatch[i].reply_id < thr[t].req.reply_id)
    /\ [][\A c \in Handles : \A r \in DOMAIN nsent[c] :
            nsent'[c][r] # nsent[c][r] =>
               /\ dispatch # <<>>
               /\ Head(dispatch).reply_ctx = c
               /\ Head(dispatch).reply_id = r
               /\ dispatch' = Tail(dispatch)
               /\ \A i \in DOMAIN dispatch' :
                     /\ dispatch'[i].thread = Head(dispatch).thread
                     /\ dispatch'[i].reply_ctx = c
                     => dispatch'[i].reply_id > r]_vars

C18_Witness ==
    /\ Len(dispatch) = 2
    /\ dispatch[1].thread = 1 /\ dispatch[1].reply_id = 2
    /\ dispatch[2].thread = 1 /\ dispatch[2].reply_id = 3
    /\ dispatch[1].reply_ctx = 1 /\ dispatch[2].reply_ctx = 1
    /\ nsent[1][1] = 1
    /\ ret[1] = Returned(1, 3)

\* C19: the engine holds as many suspend requests as there were suspend
\* calls not yet matched by a resume call, whichever handles and threads made
\* them; the playback thread shows a frame only when the two numbers are
\* equal; and a resume call made when they are equal aborts the process.
C19_SuspendCount ==
    /\ [](fatal = "none" =>
            /\ mpctx.resumes <= mpctx.suspends
            /\ mpctx.suspend_count = mpctx.suspends - mpctx.resumes)
    /\ [](mpctx.resumes > mpctx.suspends => fatal # "none")
    /\ [][mpctx'.frame # mpctx.frame =>
            mpctx.suspends = mpctx.resumes]_vars
    /\ [][/\ mpctx'.resumes # mpctx.resumes
          /\ mpctx.resumes = mpctx.suspends
          => fatal' = "resume without suspend"]_vars

C19_Witness ==
    /\ mpctx.suspends = 2
    /\ mpctx.resumes = 3
    /\ mpctx.frame = 1
    /\ fatal = "resume without suspend"

\* C20: while the engine is not initialized, a call of mpv_command,
\* mpv_command_string, mpv_command_async, mpv_set_property,
\* mpv_set_property_async, mpv_get_property or mpv_get_property_async returns
\* MPV_ERROR_UNINITIALIZED (-7) and leaves the handles (reserved slots, reply
\* ID counters, rings), the issued IDs, the replies written and the dispatch
\* queue as they were.
C20_Uninitialized ==
    [][\A t \in SpecThreads : \A c \in Registered :
          /\ ~mpctx.initialized
          /\ \/ \E cmd \in Cmds : mpv_command(t, c, cmd)
             \/ \E cmd \in Cmds : mpv_command_string(t, c, cmd)
             \/ mpv_command_async(t, c)
             \/ \E f \in SetFormats : mpv_set_property(t, c, f)
             \/ \E f \in SetFormats : mpv_set_property_async(t, c, f)
             \/ \E f \in SetFormats : mpv_get_property(t, c, f)
             \/ \E f \in SetFormats : mpv_get_property_async(t, c, f)
          => /\ ret'[t] = Returned(c, MPV_ERROR_UNINITIALIZED)
             /\ ret'[t].r = -7
             /\ UNCHANGED <<handle, issued, nsent, dispatch, thr>>]_vars

C20_Witness ==
    /\ ~mpctx.initialized
    /\ ret[1] = Returned(1, MPV_ERROR_UNINITIALIZED)
    /\ handle[1].reserved_events = 0
    /\ handle[1].alloc_reply_id = 0
    /\ dispatch = <<>>

\* C21: mpv_set_property_async with a format other than MPV_FORMAT_STRING,
\* and mpv_get_property_async with a format other than MPV_FORMAT_STRING and
\* MPV_FORMAT_OSD_STRING, return MPV_ERROR_INVALID_PARAMETER at once: no
\* reply slot is reserved, no request is queued and no event is written to
\* the ring.
C21_BadFormat ==
    [][\A t \in SpecThreads : \A c \in Registered :
          \/ \E f \in Formats \ {MPV_FORMAT_STRING} :
                 mpv_set_property_async(t, c, f)
          \/ \E f \in Formats \ {MPV_FORMAT_STRING, MPV_FORMAT_OSD_STRING} :
                 mpv_get_property_async(t, c, f)
          => /\ ret'[t] = Returned(c, MPV_ERROR_INVALID_PARAMETER)
             /\ UNCHANGED <<handle, issued, nsent, dispatch, thr>>]_vars

\* The handles mp_new_client has created and mpv_destroy has not freed.
LiveHandles == {c \in Handles : handle[c].name # NoName}

\* C22: num_clients is the number of handles created and not yet destroyed,
\* each of them is in the table exactly once, and mpv_destroy takes the
\* destroyed handle out of the table and leaves the other entries in their
\* order; with every handle destroyed the count is 0.
C22_RegistryCount ==
    /\ [](mp_clients_num = Cardinality(LiveHandles))
    /\ [](\A c \in LiveHandles :
            Cardinality({i \in DOMAIN clients : clients[i] = c}) = 1)
    /\ [](LiveHandles = {} => mp_clients_num = 0)
    /\ [][\A c \in Registered :
            mpv_destroy(c) =>
              \E i \in DOMAIN clients :
                 /\ clients[i] = c
                 /\ clients' = SubSeq(clients, 1, i - 1)
                                 \o SubSeq(clients, i + 1, Len(clients))
                 /\ LiveHandles' = LiveHandles \ {c}]_vars

C22_Witness ==
    /\ clients = <<3, 1>>
    /\ LiveHandles = {1, 3}
    /\ mp_clients_num = 2

\* C23: mpv_destroy never frees a handle whose lock another thread holds,
\* and the playback thread locks a handle and runs a callback that replies
\* to it only while the handle has not been destroyed.
C23_SafeTeardown ==
    /\ [][\A c \in Registered : mpv_destroy(c) => HandleFree(lk, c)]_vars
    /\ [][DispatchLock \/ (\E err \in PropertyResults : DispatchLocked(err))
            => Head(dispatch).reply_ctx \in LiveHandles]_vars

\* C24: "Too many events queued." is logged at most once for a handle, by
\* the first send_event that finds the event enabled and no free slot
\* beyond the reserved ones; later drops and events the mask filters out
\* log nothing.
C24_ChokeOnce ==
    /\ [](\A c \in Handles :
            /\ handle[c].nwarnings <= 1
            /\ handle[c].choke_warning <=> handle[c].nwarnings = 1)
    /\ [][\A c \in Registered : \A e \in BroadcastEvents :
            mp_client_broadcast_event(e, NULL) =>
               LET ctx == handle[c]
                   dropped ==
                       /\ e \in ctx.event_mask
                       /\ mp_ring_available(ctx.events) <= ctx.reserved_events
               IN handle'[c].nwarnings =
                     IF dropped /\ ctx.nwarnings = 0 THEN 1
                     ELSE ctx.nwarnings]_vars
    /\ [][\A c \in Registered :
            handle'[c].nwarnings # handle[c].nwarnings =>
               \E e \in BroadcastEvents :
                  /\ mp_client_broadcast_event(e, NULL)
                  /\ handle'[c].events = handle[c].events]_vars

C24_Witness ==
    \E c \in Registered :
        /\ handle[c].nwarnings = 1
        /\ MPV_EVENT_TICK \notin handle[c].event_mask
        /\ handle[c].events = <<>>
        /\ handle[c].reserved_events = 0

\* C25: in a broadcast, send_event writes the record to the ring of a client
\* exactly when the event is in the client's mask and the ring has more free
\* slots than reserved_events; it then signals the client's condition
\* variable and returns 0.  Otherwise the ring, reserved_events and the
\* condition variable of that client are as before, and it returns 0 for an
\* event the mask filters out and -1 for a drop.  What happens at one client
\* depends on that client alone, and the broadcast never waits.
C25_SendEventGate ==
    /\ [][\A e \in FanoutEvents :
            mp_client_broadcast_event(e, NULL) =>
              \A c \in Registered :
                 LET ctx == handle[c]
                     writes ==
                         /\ e \in ctx.event_mask
                         /\ mp_ring_available(ctx.events) > ctx.reserved_events
                     r == send_event(ctx, mpv_event_data(e, 0)).r
                 IN /\ handle'[c].reserved_events = ctx.reserved_events
                    /\ IF writes
                       THEN /\ handle'[c].events =
                                  Append(ctx.events, mpv_event_data(e, 0))
                            /\ handle'[c].wakeup =
                                  IF ctx.wakeup = "waiting" THEN "signaled"
                                  ELSE ctx.wakeup
                            /\ r = 0
                       ELSE /\ handle'[c].events = ctx.events
                            /\ handle'[c].wakeup = ctx.wakeup
                            /\ r = IF e \in ctx.event_mask THEN -1 ELSE 0]_vars
    /\ [](\A e \in FanoutEvents : ENABLED mp_client_broadcast_event(e, NULL))

C25_Witness ==
    /\ Len(clients) = 2
    /\ handle[clients[1]].events = <<mpv_event_data(MPV_EVENT_PAUSE, 0)>>
    /\ handle[clients[1]].reserved_events = 1
    /\ handle[clients[1]].choke_warning
    /\ handle[clients[2]].events =
           <<mpv_event_data(MPV_EVENT_PAUSE, 0),
             mpv_event_data(MPV_EVENT_PAUSE, 0)>>
    /\ MPV_EVENT_PAUSE \notin handle[clients[2]].event_mask

\* C26: for every client the records buffered in the ring and the reserved
\* slots together are at most max_events: the free slots of the ring are at
\* least as many as the outstanding reservations.
C26_SlotsCoverReservations ==
    \A c \in Registered :
        /\ mp_ring_buffered(handle[c].events) + handle[c].reserved_events
               <= handle[c].max_events
        /\ mp_ring_available(handle[c].events) >= handle[c].reserved_events

\* Every name mp_new_client tries for name is the name of a client.
NamesExhausted(name) ==
    /\ find_client(RegisteredNames, name)
    /\ \A n \in 2 .. MaxSuffix :
          find_client(RegisteredNames, talloc_asprintf(name, n))

\* C27: mp_new_client gives up the registry lock when it returns; when the
\* name and the name with every suffix are taken it returns NULL and leaves
\* the table, its length and the handles as they were, and in every other
\* case, so also after mpv_destroy has freed one of the names, it appends a
\* client under a name no other client has.
C27_NamesExhausted ==
    [][\A t \in Threads :
          /\ lk.pc[t].op = "new_client"
          /\ LockBody(t)
          => /\ lk'.registry = 0
             /\ lk'.pc[t] = LockIdle
             /\ IF NamesExhausted(lk.pc[t].arg)
                THEN /\ UNCHANGED <<clients, handle>>
                     /\ lk'.nulls = lk.nulls + 1
                ELSE /\ Len(clients') = Len(clients) + 1
                     /\ SubSeq(clients', 1, Len(clients)) = clients
                     /\ handle'[clients'[Len(clients')]].name
                           \notin RegisteredNames
                     /\ lk'.nulls = lk.nulls]_vars

C27_Witness ==
    /\ lk.nulls = 1
    /\ clients = <<2, 3, 1>>
    /\ handle[1].name = Main
    /\ \A t \in Threads : lk.pc[t].at = "idle"

\* The mpv_wait_event call on client c returns in this step: at once, or
\* after it has waited.
WaitReturns(c) ==
    /\ \/ \E timeout \in WaitTimeouts : mpv_wait_event(c, timeout)
       \/ wait_event_wakes(c)
    /\ handle'[c].wakeup = "idle"

\* The timeout of the mpv_wait_event call on client c that takes this step.
WaitTimeout(c) ==
    IF handle[c].wakeup = "idle"
    THEN CHOOSE timeout \in WaitTimeouts : mpv_wait_event(c, timeout)
    ELSE waiter[c].timeout

\* C28: a returning mpv_wait_event call returns the oldest record of the
\* ring when the ring holds one; else SHUTDOWN when shutdown is set; else
\* LOG_MESSAGE when the log buffer has an entry, which it takes; else NONE,
\* and then a wakeup was queued or the timeout is <= 0.  So SHUTDOWN,
\* LOG_MESSAGE and NONE are returned only with an empty ring.
C28_WaitPriority ==
    [][\A c \in Registered :
          WaitReturns(c) =>
            LET ctx == handle[c]
                ev == handle'[c].cur_event
            IN /\ IF ctx.events # <<>>
                  THEN /\ ev = Head(ctx.events)
                       /\ handle'[c].events = Tail(ctx.events)
                       /\ handle'[c].messages = ctx.messages
                  ELSE IF ctx.shutdown
                  THEN /\ ev.event_id = MPV_EVENT_SHUTDOWN
                       /\ handle'[c].messages = ctx.messages
                  ELSE IF ctx.messages > 0
                  THEN /\ ev.event_id = MPV_EVENT_LOG_MESSAGE
                       /\ handle'[c].messages = ctx.messages - 1
                  ELSE /\ ev.event_id = MPV_EVENT_NONE
                       /\ ctx.queued_wakeup \/ WaitTimeout(c) <= 0
               /\ ev.event_id \in {MPV_EVENT_SHUTDOWN, MPV_EVENT_LOG_MESSAGE,
                                   MPV_EVENT_NONE}
                  => ctx.events = <<>>]_vars

C28_Witness ==
    \E c \in Registered :
        /\ handle[c].cur_event.event_id = MPV_EVENT_SHUTDOWN
        /\ handle[c].shutdown
        /\ handle[c].messages = 1
        /\ handle[c].events = <<>>
        /\ handle[c].wakeup = "idle"

C30_ZeroTimeout ==
    /\ [](\A c \in Registered :
            /\ handle[c].wakeup # "idle" => waiter[c].timeout > 0
            /\ handle[c].wakeup = "idle" =>
                  \A timeout \in WaitTimeouts :
                     timeout <= 0 => ENABLED mpv_wait_event(c, timeout))
    /\ [][\A c \in Registered : \A timeout \in WaitTimeouts :
            timeout <= 0 /\ mpv_wait_event(c, timeout) =>
               /\ handle'[c].wakeup = "idle"
               /\ waiter'[c] = NoWaiter
               /\ (/\ handle[c].events = <<>>
                   /\ ~handle[c].shutdown
                   /\ handle[c].messages = 0
                   /\ ~handle[c].queued_wakeup)
                  => /\ handle'[c].cur_event =
                            mpv_event_data(MPV_EVENT_NONE, 0)
                     /\ handle'[c].events = <<>>
                     /\ handle'[c].messages = 0]_vars

C30_Witness ==
    \E c \in Registered :
        /\ handle[c].nwarnings = 1
        /\ handle[c].events = <<>>
        /\ handle[c].cur_event = mpv_event_data(MPV_EVENT_NONE, 0)
        /\ ~handle[c].shutdown
        /\ handle[c].messages = 0
        /\ ~handle[c].queued_wakeup
        /\ handle[c].wakeup = "idle"

\* A record is written to the ring of client c in this step.
RingWrite(c) == Len(handle'[c].events) > Len(handle[c].events)

\* C31: a write to the ring of a client happens with the handle lock held,
\* signals the condition variable (a thread blocked in mpv_wait_event is
\* woken) and calls the wakeup callback once when one is set; a thread
\* blocks only with an empty ring, a woken thread can run before its
\* deadline has passed and returns the oldest record of the ring; and a
\* blocked call whose ring has got a record returns, unless the process has
\* aborted.
C31_WriteWakes ==
    /\ [](\A c \in Registered :
            /\ handle[c].wakeup = "waiting" => handle[c].events = <<>>
            /\ handle[c].wakeup = "signaled" /\ HandleFree(lk, c)
                   /\ fatal = "none"
               => ENABLED wait_event_wakes(c))
    /\ [][\A c \in Registered :
            /\ RingWrite(c) =>
                  /\ lk.lock[c] = PlaybackThread
                  /\ handle[c].wakeup = "waiting"
                        => handle'[c].wakeup = "signaled"
                  /\ handle'[c].ncallbacks =
                        handle[c].ncallbacks
                            + (IF handle[c].wakeup_cb THEN 1 ELSE 0)
            /\ wait_event_wakes(c) /\ handle[c].events # <<>> =>
                  /\ handle'[c].wakeup = "idle"
                  /\ handle'[c].cur_event = Head(handle[c].events)]_vars
    /\ \A c \in Handles :
          (handle[c].wakeup # "idle" /\ handle[c].events # <<>>)
              ~> (handle[c].wakeup = "idle" \/ fatal # "none")

\* A blocked call was signalled by a write to the ring that also called the
\* wakeup callback, and its deadline has not passed.
C31_Witness ==
    \E c \in Registered :
        /\ handle[c].wakeup = "signaled"
        /\ handle[c].events # <<>>
        /\ ~waiter[c].expired
        /\ handle[c].ncallbacks = 1

\* The status of the request the playback thread runs next, when
\* mp_property_do returns err in it.
RequestStatus(req, err) ==
    IF req.fn = "cmd_fn" THEN 0 ELSE translate_property_error(err)

\* The records of client c that answer a request: those in the ring and
\* the one mpv_wait_event returned.
ReplyRecords(c) ==
    {e \in {handle[c].events[i] : i \in DOMAIN handle[c].events}
             \cup {handle[c].cur_event} : e.reply_id # 0}

\* C32: the status reply for a request with reply ID R and status s is one
\* record for R: MPV_EVENT_ERROR with error = s when s < 0, MPV_EVENT_OK
\* with error = 0 otherwise.  So the event mpv_wait_event returned has
\* error = 0 unless it is MPV_EVENT_ERROR, and every MPV_EVENT_ERROR reply
\* carries a negative error.
C32_StatusReply ==
    /\ [](\A c \in Registered :
            /\ handle[c].cur_event.event_id # MPV_EVENT_ERROR
                   => handle[c].cur_event.error = 0
            /\ \A e \in ReplyRecords(c) :
                   e.event_id = MPV_EVENT_ERROR => e.error < 0)
    /\ [][\A err \in PropertyResults :
            /\ DispatchProcess(err)
            /\ Head(dispatch).fn \in {"cmd_fn", "setproperty_fn"}
            /\ fatal' = "none"
            => LET req == Head(dispatch)
                   c == req.reply_ctx
                   status == RequestStatus(req, err)
                   reply == handle'[c].events[Len(handle'[c].events)]
               IN /\ Len(handle'[c].events) = Len(handle[c].events) + 1
                  /\ reply.reply_id = req.reply_id
                  /\ reply.event_id = IF status < 0 THEN MPV_EVENT_ERROR
                                      ELSE MPV_EVENT_OK
                  /\ reply.error = IF status < 0 THEN status ELSE 0]_vars

\* mpv_wait_event has returned an error reply with its negative status
\* while an OK reply is the oldest record of the ring.
C32_Witness ==
    \E c \in Registered :
        /\ handle[c].cur_event.event_id = MPV_EVENT_ERROR
        /\ handle[c].cur_event.reply_id # 0
        /\ handle[c].cur_event.error = MPV_ERROR_PROPERTY_UNAVAILABLE
        /\ handle[c].events # <<>>
        /\ Head(handle[c].events).event_id = MPV_EVENT_OK
        /\ Head(handle[c].events).reply_id # 0

\* C33: the reply to a mpv_get_property_async request that returned a reply
\* ID is one record for that ID: MPV_EVENT_PROPERTY when mp_property_do
\* succeeds, and otherwise MPV_EVENT_ERROR with the translated result
\* (MPV_ERROR_PROPERTY, MPV_ERROR_PROPERTY_UNAVAILABLE or
\* MPV_ERROR_NOT_FOUND) as its error; never MPV_EVENT_OK.
C33_GetPropertyReply ==
    [][\A err \in PropertyResults :
          /\ DispatchProcess(err)
          /\ Head(dispatch).fn = "getproperty_fn"
          /\ fatal' = "none"
          => LET req == Head(dispatch)
                 c == req.reply_ctx
                 reply == handle'[c].events[Len(handle'[c].events)]
             IN /\ Len(handle'[c].events) = Len(handle[c].events) + 1
                /\ nsent'[c][req.reply_id] = 1
                /\ reply.reply_id = req.reply_id
                /\ reply.event_id # MPV_EVENT_OK
                /\ IF err = "M_PROPERTY_OK"
                   THEN reply.event_id = MPV_EVENT_PROPERTY
                   ELSE /\ reply.event_id = MPV_EVENT_ERROR
                        /\ reply.error = translate_property_error(err)
                        /\ reply.error \in {MPV_ERROR_PROPERTY,
                                            MPV_ERROR_PROPERTY_UNAVAILABLE,
                                            MPV_ERROR_NOT_FOUND}]_vars

\* C34: mpv_request_event(ctx, K, enable) with K one of the kinds of
\* event_table and enable 0 or 1 returns 0 and sets bit K of the mask to
\* enable; every other bit and every other field of the handle (the ring
\* and reserved_events among them) stay as they are, and the same call made
\* again changes nothing.  With another K or another enable it returns
\* MPV_ERROR_INVALID_PARAMETER and leaves the handle as it is.
C34_RequestEvent ==
    [][\A t \in SpecThreads : \A c \in Registered :
       \A e \in RequestKinds : \A on \in RequestEnables :
          mpv_request_event_by(t, c, e, on) =>
            IF e \in EventIds /\ on \in {0, 1}
            THEN /\ ret'[t] = Returned(c, 0)
                 /\ (e \in handle'[c].event_mask) <=> (on = 1)
                 /\ handle'[c].event_mask \ {e} = handle[c].event_mask \ {e}
                 /\ handle' = [handle EXCEPT ![c].event_mask =
                                                handle'[c].event_mask]
                 /\ request_event(handle'[c], e, on).ctx = handle'[c]
            ELSE /\ ret'[t] = Returned(c, MPV_ERROR_INVALID_PARAMETER)
                 /\ handle' = handle]_vars

\* A client with a reply reserved and a record in its ring has switched
\* MPV_EVENT_SCRIPT_INPUT_DISPATCH off.
C34_Witness ==
    \E t \in SpecThreads : \E c \in Registered :
        /\ ret[t] = Returned(c, 0)
        /\ MPV_EVENT_SCRIPT_INPUT_DISPATCH \notin handle[c].event_mask
        /\ MPV_EVENT_NONE \in handle[c].event_mask
        /\ handle[c].events # <<>>
        /\ handle[c].reserved_events > 0

\* The level of the log tap of ctx: -1 when the tap is closed.
TapLevel(ctx) == IF ctx.messages_buf = NULL THEN -1 ELSE ctx.messages_level

\* The levels of the names a mpv_request_log_messages call accepts.
LevelOf ==
    [l \in {"no", "fatal", "error", "warn", "info", "status", "v", "debug",
            "trace"} |->
        CASE l = "no" -> -1 [] l = "fatal" -> 0 [] l = "error" -> 1
          [] l = "warn" -> 2 [] l = "info" -> 3 [] l = "status" -> 4
          [] l = "v" -> 5 [] l = "debug" -> 6 [] l = "trace" -> 7]

\* C35: a mpv_request_log_messages call with a name outside the list
\* returns MPV_ERROR_INVALID_PARAMETER and changes nothing.  A call with a
\* name of the list returns 0; after it the tap is open iff the name is not
\* "no", and then at the level of the name; when that level was in effect
\* already the tap and its unread messages are the ones from before, and
\* otherwise the tap is a new, empty one.  Nothing else opens, closes or
\* replaces the tap, so it is as the last successful call left it.
C35_LogTap ==
    /\ [][\A t \in SpecThreads : \A c \in Registered : \A l \in LevelNames :
            mpv_request_log_messages(t, c, l) =>
              IF l \notin DOMAIN LevelOf
              THEN /\ ret'[t] = Returned(c, MPV_ERROR_INVALID_PARAMETER)
                   /\ handle' = handle
              ELSE /\ ret'[t] = Returned(c, 0)
                   /\ TapLevel(handle'[c]) = LevelOf[l]
                   /\ handle'[c].messages_buf # NULL <=> l # "no"
                   /\ IF TapLevel(handle[c]) = LevelOf[l]
                      THEN /\ handle'[c].messages_buf = handle[c].messages_buf
                           /\ handle'[c].messages = handle[c].messages
                      ELSE /\ handle'[c].messages = 0
                           /\ handle'[c].messages_buf # NULL =>
                                 handle'[c].messages_buf > handle[c].nbuffers]_vars
    /\ [][\A c \in Registered :
            \/ TapLevel(handle'[c]) # TapLevel(handle[c])
            \/ handle'[c].messages_buf # handle[c].messages_buf
            => \E t \in SpecThreads : \E l \in LevelNames :
                  mpv_request_log_messages(t, c, l)]_vars

\* The tap was opened at "info", got a message, and a call with "info"
\* again has left it and the message in place.
C35_Witness ==
    \E t \in SpecThreads : \E c \in Registered :
        /\ ret[t] = Returned(c, 0)
        /\ handle[c].messages_buf = 1
        /\ handle[c].nbuffers = 1
        /\ handle[c].messages_level = 3
        /\ handle[c].messages = 1

\* The places that hold payload p: the records of the rings (i >= 1) and
\* the event mpv_wait_event returned last (i = 0), of every handle.
Holders(p) ==
    {h \in Handles \X (0 .. num_events) :
        IF h[2] = 0 THEN handle[h[1]].cur_event.data = p
        ELSE /\ h[2] <= Len(handle[h[1]].events)
             /\ handle[h[1]].events[h[2]].data = p}

\* C36: the payload of a mp_client_send_event call is released exactly
\* once.  With no client of the name the call frees it, returns -1 and
\* writes to no ring; otherwise, whether the client took the event, had it
\* masked or had no unreserved slot for it, the payload is freed already or
\* has exactly one holder, which frees it later.
C36_PayloadReleased ==
    /\ [](\A p \in Payloads :
            /\ heap[p].nfree <= 1
            /\ heap[p].live => Cardinality(Holders(p)) = 1
            /\ ~heap[p].live => Holders(p) = {})
    /\ [][\A name \in TargetNames : \A e \in TargetEvents :
          \A data \in Payloads :
            /\ mp_client_send_event(name, e, data)
            /\ ~\E c \in Registered : handle[c].name = name
            => /\ ret'[PlaybackThread].r = -1
               /\ heap'[data] = [live |-> FALSE, nfree |-> 1]
               /\ handle' = handle]_vars

\* The records client c holds: those of its ring and the event
\* mpv_wait_event returned last.
Records(c) ==
    {handle[c].events[i] : i \in DOMAIN handle[c].events}
        \cup {handle[c].cur_event}

\* C37: a client that has not called mpv_request_event has every bit of
\* its mask set except that of MPV_EVENT_TICK: send_event writes an event
\* of every other kind to its ring when the ring has an unreserved slot,
\* a broadcast of MPV_EVENT_TICK leaves the handle as it is, and no record
\* of the client is a MPV_EVENT_TICK.
C37_DefaultMask ==
    /\ [](\A c \in Registered :
            /\ handle[c].event_mask = (0 .. 63) \ {MPV_EVENT_TICK}
            /\ \A e \in Records(c) : e.event_id # MPV_EVENT_TICK
            /\ \A e \in EventIds :
                  LET out == send_event(handle[c], mpv_event_data(e, 0))
                  IN IF e = MPV_EVENT_TICK
                     THEN out.ctx = handle[c]
                     ELSE IF mp_ring_available(handle[c].events)
                                > handle[c].reserved_events
                     THEN out.ctx.events =
                              Append(handle[c].events, mpv_event_data(e, 0))
                     ELSE out.ctx.events = handle[c].events)
    /\ [][\A e \in DefaultEvents :
            mp_client_broadcast_event(e, NULL) =>
              \A c \in Registered :
                 IF /\ e # MPV_EVENT_TICK
                    /\ mp_ring_available(handle[c].events)
                           > handle[c].reserved_events
                 THEN handle'[c].events =
                          Append(handle[c].events, mpv_event_data(e, 0))
                 ELSE handle'[c].events = handle[c].events]_vars

\* The client created during the run has taken two broadcasts, and the
\* first client, with a reply reserved, one.
C37_Witness ==
    /\ Len(clients) = 2
    /\ Len(handle[clients[2]].events) = 2
    /\ handle[clients[2]].events[2].event_id
           = MPV_EVENT_SCRIPT_INPUT_DISPATCH
    /\ handle[clients[1]].reserved_events = 1
    /\ Len(handle[clients[1]].events) = 1

====
